---- MODULE Spec2Model ----
(***************************************************************************)
(* A model of the sampler's audio engine (public/js/audioEngine.js): the   *)
(* pad parameter table, the per-pad playback state machine and the voices  *)
(* it schedules on the audio thread.                                       *)
(*                                                                         *)
(* Units.  Time is counted in milliseconds, trim offsets in thousandths of *)
(* the buffer, pitch and volume (and gain values) in hundredths, attack    *)
(* and release in milliseconds, positions inside a buffer in microseconds. *)
(* Arithmetic on these grids is exact; gain interpolation is rounded down  *)
(* to the grid.                                                            *)
(***************************************************************************)
EXTENDS Integers, Sequences, FiniteSets, TLC

\* ------------------------------------------------------------------ bounds
\* The number of sources one run creates, and the milliseconds it lasts.
MaxVoices == 3
MaxTime == 2
\* The number of loadSound calls one run makes.
MaxLoads == 2
\* The recorders made, the chunks a recorder delivers and the
\* stopTrackRecording calls of a run.
MaxSessions == 2
MaxChunks == 2
MaxStops == 3
\* The longest buffer and the most channels given to getReversedBuffer.
MaxLen == 3
MaxChannels == 2
\* The voices started while a session is recorded.
MixVoices == 2

\* ------------------------------------------------- program constants (scaled)
LastPad == 15
TrimOne == 1000
MinWindow == 10
PitchOne == 100
VolumeOne == 100
DefaultAttack == 10
DefaultRelease == 100

\* The pads whose slots the model keeps: the first and the last of the sixteen.
Pads == {0, LastPad}
\* The indices callers pass: those pads, one index below and one above the range.
PadArgs == Pads \cup {-1, LastPad + 1}
\* The decoded buffers the environment supplies.
Buffers == {1}
NoBuffer == 0
NoUrl == "null"
RecordedUrl == "recorded-audio"
None == 0
NoTime == -1

Min(a, b) == IF a < b THEN a ELSE b
Max(a, b) == IF a > b THEN a ELSE b

VARIABLES audioContext, buffers, soundUrls, trimStart, trimEnd, loopEnabled,
          pitch, volume, reverse, playMode, attack, release,
          activeSources, activeGains, voices, now, last, loads, preset,
          recordDestination, isRecordingTrack, trackRecorder,
          trackRecordingChunks, trackRecordedBlob, stops, buffer, reversed,
          mediaRecorder, audioChunks, pressedKeys, pointer

params == <<trimStart, trimEnd, loopEnabled, pitch, volume, reverse, playMode,
            attack, release>>
store == <<buffers, soundUrls>>
playback == <<activeSources, activeGains, voices>>
engine == <<audioContext, store, params, playback>>
loading == <<loads, preset>>
session == <<isRecordingTrack, trackRecorder, trackRecordingChunks,
             trackRecordedBlob, stops>>
mic == <<mediaRecorder, audioChunks>>
recording == <<recordDestination, session, mic>>
gui == <<pressedKeys, pointer>>
reversal == <<buffer, reversed>>
vars == <<engine, now, last, loading, recording, reversal, gui>>

\* The sources created so far, numbered in the order of their creation.
Voices == DOMAIN voices

\* A source that is gone: it has ended and its ended event has been handled.
\* (The field rel records the pad's release time when the source was started;
\* the engine keeps no such record and nothing in the model reads it but the
\* properties.)
GoneVoice ==
    [state |-> "gone", pad |-> 0, buf |-> NoBuffer, rev |-> FALSE, rate |-> 0,
     loop |-> FALSE, offset |-> 0, dur |-> NoTime, loopStart |-> 0, loopEnd |-> 0,
     left |-> 0, g0 |-> 0, gt0 |-> 0, g1 |-> 0, gt1 |-> 0, stopAt |-> NoTime,
     rel |-> 0]

\* A source that has ended and whose ended event is queued: it makes no sound any
\* more, and its handler knows the pad it was started for.
EndedVoice(padIndex) == [GoneVoice EXCEPT !.state = "ended", !.pad = padIndex]

\* The last call or event: its name, its pad, a detail (the voice registered for
\* the pad when play or stop was called, the voice of an ended event, the value
\* passed to a setter, the number of pads registered when stopAll was called)
\* and what it returned.
Call(op, pad, arg, ret) == [op |-> op, pad |-> pad, arg |-> arg, ret |-> ret]

InvalidIndex(padIndex) == padIndex < 0 \/ padIndex > LastPad

\* The voice registered for a pad, for the record of the last call.
Registered(padIndex) == IF InvalidIndex(padIndex) THEN None ELSE activeSources[padIndex]

\* The loadPreset call: where it is, the sounds of its preset, how many of them
\* are done, the loadSound call it awaits and the calls it has made so far.
NoPreset == [pc |-> "none", sounds |-> <<>>, k |-> 0, cur |-> 0, log |-> <<>>]

\* trackRecorder before the first MediaRecorder is made. A recorder has the
\* number of its session, its state, its onstop handler (0 for the one
\* startTrackRecording sets, c for the one the c-th stopTrackRecording call
\* sets), whether the task of its stop() is queued, and how many chunks with
\* data it has delivered.
NoRecorder == [id |-> 0, state |-> "inactive", onstop |-> 0, stopping |-> FALSE,
               sent |-> 0]
\* trackRecordedBlob before the first Blob is made. A blob has its number in
\* the order of creation and the chunks it was made of.
NoBlob == [id |-> 0, chunks |-> <<>>]

\* mediaRecorder before initRecording() has made the microphone recorder: a
\* recorder has its state and whether the task of its stop() is queued.
NoMediaRecorder == [made |-> FALSE, state |-> "inactive", stopping |-> FALSE]

\* No pad is under the pointer.
NoPad == -1
\* The pointer: the pad it is held down on and the pad whose click event is
\* queued.
NoPointer == [down |-> NoPad, click |-> NoPad]

\* No AudioBuffer. An AudioBuffer has at least one channel and one frame and
\* a positive sample rate; data[c][i] is sample i - 1 of channel c - 1.
NoAudioBuffer == [numberOfChannels |-> 0, length |-> 0, sampleRate |-> 0, data |-> <<>>]

Init ==
    /\ audioContext = FALSE
    /\ buffers = [p \in Pads |-> NoBuffer]
    /\ soundUrls = [p \in Pads |-> NoUrl]
    /\ trimStart = [p \in Pads |-> 0]
    /\ trimEnd = [p \in Pads |-> TrimOne]
    /\ loopEnabled = [p \in Pads |-> FALSE]
    /\ pitch = [p \in Pads |-> PitchOne]
    /\ volume = [p \in Pads |-> VolumeOne]
    /\ reverse = [p \in Pads |-> FALSE]
    /\ playMode = [p \in Pads |-> "oneshot"]
    /\ attack = [p \in Pads |-> DefaultAttack]
    /\ release = [p \in Pads |-> DefaultRelease]
    /\ activeSources = [p \in Pads |-> None]
    /\ activeGains = [p \in Pads |-> None]
    /\ voices = <<>>
    /\ now = 0
    /\ last = Call("new", -1, 0, "none")
    /\ loads = <<>>
    /\ preset = NoPreset
    /\ recordDestination = FALSE
    /\ isRecordingTrack = FALSE
    /\ trackRecorder = NoRecorder
    /\ trackRecordingChunks = <<>>
    /\ trackRecordedBlob = NoBlob
    /\ stops = <<>>
    /\ buffer = NoAudioBuffer
    /\ reversed = NoAudioBuffer
    /\ mediaRecorder = NoMediaRecorder
    /\ audioChunks = <<>>
    /\ pressedKeys = {}
    /\ pointer = NoPointer

\* init(): the audio context and the master bus exist afterwards.
InitEngine ==
    /\ UNCHANGED <<loading, session, mic, reversal, gui>>
    /\ audioContext' = TRUE
    /\ recordDestination' = TRUE
    /\ last' = Call("init", -1, 0, "true")
    /\ UNCHANGED <<store, params, playback, now>>

\* ------------------------------------------------------------ voices
\* AudioBuffer.duration of a decoded buffer, in milliseconds.
BufDuration(b) == b + 1

\* The value of a gain parameter whose automation is the line from (gt0, g0)
\* to (gt1, g1), read at time t.
GainAt(vc, t) ==
    IF t >= vc.gt1 THEN vc.g1
    ELSE IF t <= vc.gt0 THEN vc.g0
    ELSE vc.g0 + ((vc.g1 - vc.g0) * (t - vc.gt0)) \div (vc.gt1 - vc.gt0)

\* The playback state as one value, so that stopSound can be applied in sequence.
Playback == [voices |-> voices, src |-> activeSources, gn |-> activeGains]

\* stopSound's guard: if (source && gain).
HasActiveVoice(st, padIndex) == st.src[padIndex] # None /\ st.gn[padIndex] # None

\* gain.gain.value as read by stopSound when it starts the release ramp.
ReleaseFromVolume(vc) == volume[vc.pad]
ReleaseFrom(vc) == GainAt(vc, now)

\* cancelScheduledValues(now); setValueAtTime(gain.value, now);
\* linearRampToValueAtTime(0, now + releaseTime).
ReleaseRamp(vc, releaseTime) ==
    IF vc.state = "playing"
    THEN [vc EXCEPT !.g0 = ReleaseFrom(vc), !.gt0 = now, !.g1 = 0,
                    !.gt1 = now + releaseTime]
    ELSE vc

\* source.stop(when): a source that has already ended is not affected.
ScheduleStop(vc, when) ==
    IF vc.state = "playing" THEN [vc EXCEPT !.stopAt = when] ELSE vc

\* source.stop(): the source ends now and its ended event is queued.
HardStop(vc) ==
    IF vc.state = "playing" THEN EndedVoice(vc.pad) ELSE vc

\* stopSound forgets the source, after either kind of stop.
ForgetSourceOnHardStop(src, padIndex, useRelease) ==
    IF useRelease THEN src ELSE [src EXCEPT ![padIndex] = None]
ForgetSource(src, padIndex, useRelease) == [src EXCEPT ![padIndex] = None]

\* stopSound forgets the gain node too.
KeepGain(gn, padIndex, useRelease) == gn
ForgetGain(gn, padIndex, useRelease) == [gn EXCEPT ![padIndex] = None]

\* const releaseTime = this.release[padIndex], read when stopSound runs.
ReleaseTimeAtStart(st, padIndex) == st.voices[st.src[padIndex]].rel
ReleaseTime(st, padIndex) == release[padIndex]

\* What stopSound does to the registered source and gain node.
StopRegistered(st, padIndex, useRelease) ==
    LET s == st.src[padIndex]
        g == st.gn[padIndex]
        ramped == IF useRelease
                  THEN [st.voices EXCEPT ![g] = ReleaseRamp(@, ReleaseTime(st, padIndex))]
                  ELSE st.voices
        stopped == IF useRelease
                   THEN [ramped EXCEPT ![s] = ScheduleStop(@, now + ReleaseTime(st, padIndex))]
                   ELSE [ramped EXCEPT ![s] = HardStop(@)]
    IN [voices |-> stopped,
        src |-> ForgetSource(st.src, padIndex, useRelease),
        gn |-> ForgetGain(st.gn, padIndex, useRelease)]

\* A stopSound that, finding no stored reference, looks for the pad's voices.
StopEffectByPad(st, padIndex, useRelease) ==
    IF HasActiveVoice(st, padIndex)
    THEN StopRegistered(st, padIndex, useRelease)
    ELSE [st EXCEPT !.voices =
             [v \in DOMAIN st.voices |->
                 IF st.voices[v].pad = padIndex THEN HardStop(st.voices[v])
                 ELSE st.voices[v]]]
\* The body of stopSound for an index in range.
StopEffect(st, padIndex, useRelease) ==
    IF HasActiveVoice(st, padIndex)
    THEN StopRegistered(st, padIndex, useRelease)
    ELSE st

\* isPlaying(padIndex).
IsPlaying(padIndex) == activeSources[padIndex] # None

\* playSound's check that the pad holds a buffer.
NeverNoBuffer(padIndex) == FALSE
HasNoBuffer(padIndex) == buffers[padIndex] = NoBuffer

\* playSound stops the pad's current voice first, without release.
KeepPrevious(st, padIndex) == st
CutWithRelease(st, padIndex) == StopEffect(st, padIndex, TRUE)
CutPrevious(st, padIndex) == StopEffect(st, padIndex, FALSE)

\* What playSound reports when building or starting the graph throws.
PlayUncaught == "throw"
PlayCaught == "false"

\* const playDuration = endTime - startTime.
PlayUntilEnd(startTime, endTime) == endTime
PlayDuration(startTime, endTime) == endTime - startTime

\* A playSound that, with reverse set, plays the trim window of the original
\* buffer backwards: the window mirrored in the reversed buffer.
MirroredVoice(padIndex) ==
    LET duration == BufDuration(buffers[padIndex])
        startTime == IF reverse[padIndex] THEN (TrimOne - trimEnd[padIndex]) * duration
                     ELSE trimStart[padIndex] * duration
        endTime == IF reverse[padIndex] THEN (TrimOne - trimStart[padIndex]) * duration
                   ELSE trimEnd[padIndex] * duration
        playDuration == PlayDuration(startTime, endTime)
        loop == loopEnabled[padIndex]
    IN [state |-> "playing", pad |-> padIndex, buf |-> buffers[padIndex],
        rev |-> reverse[padIndex], rate |-> pitch[padIndex], loop |-> loop,
        offset |-> startTime, dur |-> IF loop THEN NoTime ELSE playDuration,
        loopStart |-> IF loop THEN startTime ELSE 0,
        loopEnd |-> IF loop THEN endTime ELSE 0,
        left |-> IF loop THEN 0 ELSE playDuration,
        g0 |-> 0, gt0 |-> now, g1 |-> volume[padIndex],
        gt1 |-> now + attack[padIndex], stopAt |-> NoTime,
        rel |-> release[padIndex]]

\* The source and gain nodes playSound builds and starts.
NewVoice(padIndex) ==
    LET duration == BufDuration(buffers[padIndex])
        startTime == trimStart[padIndex] * duration
        endTime == trimEnd[padIndex] * duration
        playDuration == PlayDuration(startTime, endTime)
        loop == loopEnabled[padIndex]
    IN [state |-> "playing", pad |-> padIndex, buf |-> buffers[padIndex],
        rev |-> reverse[padIndex], rate |-> pitch[padIndex], loop |-> loop,
        offset |-> startTime, dur |-> IF loop THEN NoTime ELSE playDuration,
        loopStart |-> IF loop THEN startTime ELSE 0,
        loopEnd |-> IF loop THEN endTime ELSE 0,
        left |-> IF loop THEN 0 ELSE playDuration,
        g0 |-> 0, gt0 |-> now, g1 |-> volume[padIndex],
        gt1 |-> now + attack[padIndex], stopAt |-> NoTime,
        rel |-> release[padIndex]]

\* What playSound(padIndex) does to the playback state and what it returns; fail
\* says whether a call on the audio graph throws.
PlaySoundCall(padIndex, fail) ==
    IF InvalidIndex(padIndex) \/ HasNoBuffer(padIndex)
    THEN /\ last' = Call("play", padIndex, Registered(padIndex), "false")
         /\ UNCHANGED playback
    ELSE LET cut == CutPrevious(Playback, padIndex) IN
         IF ~audioContext \/ fail
         THEN /\ voices' = cut.voices
              /\ activeSources' = cut.src
              /\ activeGains' = cut.gn
              /\ last' = Call("play", padIndex, Registered(padIndex), PlayCaught)
         ELSE /\ Len(voices) < MaxVoices
              /\ LET v == Len(voices) + 1 IN
                 /\ voices' = Append(cut.voices, NewVoice(padIndex))
                 /\ activeSources' = [cut.src EXCEPT ![padIndex] = v]
                 /\ activeGains' = [cut.gn EXCEPT ![padIndex] = v]
              /\ last' = Call("play", padIndex, Registered(padIndex), "true")

\* playSound(padIndex).
PlaySound(padIndex, fail) ==
    /\ UNCHANGED <<loading, recording, reversal, gui>>
    /\ UNCHANGED <<audioContext, store, params, now>>
    /\ PlaySoundCall(padIndex, fail)

\* What stopSound(padIndex, useRelease) does to the playback state.
StopSoundCall(padIndex, useRelease) ==
    /\ last' = Call(IF useRelease THEN "release" ELSE "stop", padIndex,
                     Registered(padIndex), "none")
    /\ IF InvalidIndex(padIndex)
       THEN UNCHANGED playback
       ELSE LET st == StopEffect(Playback, padIndex, useRelease) IN
            /\ voices' = st.voices
            /\ activeSources' = st.src
            /\ activeGains' = st.gn

\* stopSound(padIndex, useRelease).
StopSound(padIndex, useRelease) ==
    /\ UNCHANGED <<loading, recording, reversal, gui>>
    /\ UNCHANGED <<audioContext, store, params, now>>
    /\ StopSoundCall(padIndex, useRelease)

\* A stopAllSounds that stops at the first pad it has stopped.
RECURSIVE StopFirstFrom(_, _, _)
StopFirstFrom(st, i, useRelease) ==
    IF i > LastPad THEN st
    ELSE IF i \in Pads /\ st.src[i] # None
         THEN StopEffect(st, i, useRelease)
         ELSE StopFirstFrom(st, i + 1, useRelease)

\* stopAllSounds(useRelease): pads 0, 1, ... in turn.
RECURSIVE StopAllFrom(_, _, _)
StopAllFrom(st, i, useRelease) ==
    IF i > LastPad THEN st
    ELSE StopAllFrom(IF i \in Pads /\ st.src[i] # None
                     THEN StopEffect(st, i, useRelease) ELSE st,
                     i + 1, useRelease)

\* The pads for which a source is registered.
Sounding == {p \in Pads : activeSources[p] # None}

\* A stopAllSounds that stops the track recorder as well.
StopAllAndRecorder(useRelease) ==
    /\ UNCHANGED <<loading, recordDestination, mic, gui, trackRecordingChunks,
                   trackRecordedBlob, stops, reversal>>
    /\ UNCHANGED <<audioContext, store, params, now>>
    /\ last' = Call("stopAll", -1, Cardinality(Sounding), "none")
    /\ isRecordingTrack' = FALSE
    /\ trackRecorder' = [trackRecorder EXCEPT !.state = "inactive"]
    /\ LET st == StopAllFrom(Playback, 0, useRelease) IN
       /\ voices' = st.voices
       /\ activeSources' = st.src
       /\ activeGains' = st.gn

StopAllSounds(useRelease) ==
    /\ UNCHANGED <<loading, recording, reversal, gui>>
    /\ UNCHANGED <<audioContext, store, params, now>>
    /\ last' = Call("stopAll", -1, Cardinality(Sounding), "none")
    /\ LET st == StopAllFrom(Playback, 0, useRelease) IN
       /\ voices' = st.voices
       /\ activeSources' = st.src
       /\ activeGains' = st.gn

\* The identity check of the ended handler.
SamePadRegistered(padIndex, v) == activeSources[padIndex] # None
StillRegistered(padIndex, v) == activeSources[padIndex] = v

\* source.onended of voice v runs on the event loop after the source has ended.
\* Nothing refers to the nodes afterwards.
OnEnded(v) ==
    /\ UNCHANGED <<loading, recording, reversal, gui>>
    /\ voices[v].state = "ended"
    /\ LET padIndex == voices[v].pad IN
       /\ IF StillRegistered(padIndex, v)
          THEN /\ activeSources' = [activeSources EXCEPT ![padIndex] = None]
               /\ activeGains' = [activeGains EXCEPT ![padIndex] = None]
          ELSE UNCHANGED <<activeSources, activeGains>>
       /\ last' = Call("onended", padIndex, v, "none")
    /\ voices' = [voices EXCEPT ![v] = GoneVoice]
    /\ UNCHANGED <<audioContext, store, params, now>>

\* One millisecond of rendering on the audio thread: a source that is not looping
\* ends when its play duration is used up, any source ends at its stop time.
AdvanceUntilStopped(vc, t) ==
    IF vc.state = "playing" /\ vc.stopAt # NoTime /\ vc.stopAt <= t
    THEN EndedVoice(vc.pad) ELSE vc
Advance(vc, t) ==
    IF vc.state # "playing" THEN vc
    ELSE LET left2 == IF vc.loop THEN vc.left
                      ELSE Max(0, vc.left - (TrimOne * vc.rate) \div PitchOne)
             done == \/ ~vc.loop /\ left2 = 0
                     \/ vc.stopAt # NoTime /\ vc.stopAt <= t
         IN IF done THEN EndedVoice(vc.pad) ELSE [vc EXCEPT !.left = left2]

Tick ==
    /\ UNCHANGED <<loading, recording, reversal, gui>>
    /\ now < MaxTime
    /\ now' = now + 1
    /\ voices' = [v \in Voices |-> Advance(voices[v], now + 1)]
    /\ last' = Call("tick", -1, 0, "none")
    /\ UNCHANGED <<audioContext, store, params, activeSources, activeGains>>

\* ------------------------------------------------------------ sample store
\* A loadBuffer without the range check.
LoadBufferUnchecked(b, padIndex) ==
    /\ buffers' = [buffers EXCEPT ![padIndex] = b]
    /\ soundUrls' = [soundUrls EXCEPT ![padIndex] = RecordedUrl]
    /\ trimStart' = [trimStart EXCEPT ![padIndex] = 0]
    /\ trimEnd' = [trimEnd EXCEPT ![padIndex] = TrimOne]
    /\ last' = Call("loadBuffer", padIndex, 0, "true")
    /\ UNCHANGED <<audioContext, loopEnabled, pitch, volume, reverse, playMode,
                   attack, release, playback, now, loading, recording, reversal, gui>>

\* A loadBuffer that stops the voice of the pad it loads.
LoadBufferStops(b, padIndex) ==
    /\ UNCHANGED <<loading, recording, reversal, gui>>
    /\ ~InvalidIndex(padIndex)
    /\ buffers' = [buffers EXCEPT ![padIndex] = b]
    /\ soundUrls' = [soundUrls EXCEPT ![padIndex] = RecordedUrl]
    /\ trimStart' = [trimStart EXCEPT ![padIndex] = 0]
    /\ trimEnd' = [trimEnd EXCEPT ![padIndex] = TrimOne]
    /\ last' = Call("loadBuffer", padIndex, 0, "true")
    /\ LET st == StopEffect(Playback, padIndex, FALSE) IN
       /\ voices' = st.voices
       /\ activeSources' = st.src
       /\ activeGains' = st.gn
    /\ UNCHANGED <<audioContext, loopEnabled, pitch, volume, reverse, playMode,
                   attack, release, now>>

\* loadBuffer(buffer, padIndex).
LoadBuffer(b, padIndex) ==
    /\ UNCHANGED <<loading, recording, reversal, gui>>
    /\ IF InvalidIndex(padIndex)
       THEN /\ last' = Call("loadBuffer", padIndex, 0, "false")
            /\ UNCHANGED <<store, trimStart, trimEnd>>
       ELSE /\ buffers' = [buffers EXCEPT ![padIndex] = b]
            /\ soundUrls' = [soundUrls EXCEPT ![padIndex] = RecordedUrl]
            /\ trimStart' = [trimStart EXCEPT ![padIndex] = 0]
            /\ trimEnd' = [trimEnd EXCEPT ![padIndex] = TrimOne]
            /\ last' = Call("loadBuffer", padIndex, 0, "true")
    /\ UNCHANGED <<audioContext, loopEnabled, pitch, volume, reverse, playMode,
                   attack, release, playback, now>>

\* ------------------------------------------------------------ loadSound
\* The audio files the server knows and the AudioBuffer decodeAudioData makes
\* of each.
Urls == {"a.wav", "b.wav"}
Decoded(url) == IF url = "a.wav" THEN 1 ELSE 2

\* The loadSound calls made so far, numbered in the order of the calls.
Loads == DOMAIN loads
Settled(ld) == ld.pc = "true" \/ ld.pc = "false"
InFlight(l) == ~Settled(loads[l])

\* A loadSound call that has passed the range check and awaits fetch().
NewLoad(url, padIndex, owner) ==
    [url |-> url, pad |-> padIndex, pc |-> "fetch", owner |-> owner]

\* What a loadSound call that settles leaves in buffers and soundUrls.
StoreClearedOnFailure(ld, ok) ==
    [buffers |-> [buffers EXCEPT ![ld.pad] = IF ok THEN Decoded(ld.url) ELSE NoBuffer],
     soundUrls |-> [soundUrls EXCEPT ![ld.pad] = IF ok THEN ld.url ELSE NoUrl]]
StoreIfEmpty(ld, ok) ==
    IF ok /\ soundUrls[ld.pad] = NoUrl
    THEN [buffers |-> [buffers EXCEPT ![ld.pad] = Decoded(ld.url)],
          soundUrls |-> [soundUrls EXCEPT ![ld.pad] = ld.url]]
    ELSE [buffers |-> buffers, soundUrls |-> soundUrls]
StoreBufferOnly(ld, ok) ==
    [buffers |-> IF ok THEN [buffers EXCEPT ![ld.pad] = Decoded(ld.url)] ELSE buffers,
     soundUrls |-> soundUrls]
StoreAfter(ld, ok) ==
    IF ok
    THEN [buffers |-> [buffers EXCEPT ![ld.pad] = Decoded(ld.url)],
          soundUrls |-> [soundUrls EXCEPT ![ld.pad] = ld.url]]
    ELSE [buffers |-> buffers, soundUrls |-> soundUrls]

\* One call loadPreset makes: onProgress(a, b), onPadLoaded(a, b = 1 for true),
\* or loadSound(url, a).
Made(ev, a, b) == [ev |-> ev, a |-> a, b |-> b]

\* The loop body of loadPreset after loadSound(sound.url, sound.pad) has
\* returned success: loadedSounds++, onPadLoaded, onProgress.
AfterSoundAbort(st, padIndex, success) ==
    [st EXCEPT !.preset.k = IF success THEN @ + 1 ELSE Len(st.preset.sounds),
               !.preset.cur = 0,
               !.preset.log = @ \o <<Made("padLoaded", padIndex, IF success THEN 1 ELSE 0),
                                     Made("progress", st.preset.k + 1,
                                          Len(st.preset.sounds))>>]
AfterSoundStale(st, padIndex, success) ==
    [st EXCEPT !.preset.k = @ + 1,
               !.preset.cur = 0,
               !.preset.log = @ \o <<Made("padLoaded", padIndex, IF success THEN 1 ELSE 0),
                                     Made("progress", st.preset.k,
                                          Len(st.preset.sounds))>>]
AfterSound(st, padIndex, success) ==
    [st EXCEPT !.preset.k = @ + 1,
               !.preset.cur = 0,
               !.preset.log = @ \o <<Made("padLoaded", padIndex, IF success THEN 1 ELSE 0),
                                     Made("progress", st.preset.k + 1,
                                          Len(st.preset.sounds))>>]

\* The for loop of loadPreset from the top of an iteration, up to the next
\* await that does not resolve at once: a sound with a pad out of range makes
\* loadSound return false without fetching and the loop goes on.
RECURSIVE PresetLoop(_)
PresetLoop(st) ==
    LET pr == st.preset IN
    IF pr.k = Len(pr.sounds)
    THEN [st EXCEPT !.preset.pc = "true"]
    ELSE LET sound == pr.sounds[pr.k + 1]
             called == [st EXCEPT !.preset.log = Append(@, Made("loadSound", sound.pad, 0))]
         IN IF InvalidIndex(sound.pad)
            THEN PresetLoop(AfterSound(called, sound.pad, FALSE))
            ELSE [called EXCEPT !.loads = Append(@, NewLoad(sound.url, sound.pad, "preset")),
                                !.preset.cur = Len(st.loads) + 1]

\* loadSound(url, padIndex), up to its first await.
LoadSound(url, padIndex) ==
    /\ Len(loads) < MaxLoads
    /\ IF InvalidIndex(padIndex)
       THEN /\ last' = Call("loadSound", padIndex, 0, "false")
            /\ UNCHANGED loads
       ELSE /\ loads' = Append(loads, NewLoad(url, padIndex, "caller"))
            /\ last' = Call("loadSound", padIndex, Len(loads) + 1, "pending")
    /\ UNCHANGED <<engine, now, preset, recording, reversal, gui>>

\* loadSound call l settles: it stores its buffer and url if it succeeded,
\* it returns, and the loadPreset call that awaits it goes on.
Settle(l, ok) ==
    LET ld == loads[l]
        done == [loads |-> [loads EXCEPT ![l].pc = IF ok THEN "true" ELSE "false"],
                 preset |-> preset]
        next == IF ld.owner = "preset" THEN PresetLoop(AfterSound(done, ld.pad, ok))
                ELSE done
    IN /\ Len(next.loads) <= MaxLoads
       /\ loads' = next.loads
       /\ preset' = next.preset
       /\ buffers' = StoreAfter(ld, ok).buffers
       /\ soundUrls' = StoreAfter(ld, ok).soundUrls
       /\ last' = Call("loadSound", ld.pad, l, IF ok THEN "true" ELSE "false")
       /\ UNCHANGED <<audioContext, params, playback, now, recording, reversal, gui>>

\* A step of loadSound call l that does not settle it.
Proceed(l, pc) ==
    /\ loads' = [loads EXCEPT ![l].pc = pc]
    /\ last' = Call("loadSound", loads[l].pad, l, "pending")
    /\ UNCHANGED <<engine, now, preset, recording, reversal, gui>>

\* fetch(fetchUrl) is over: it rejected, or answered with or without
\* response.ok.
FetchOutcomes == {"ok", "rejected", "status"}
FetchDone(l, outcome) ==
    /\ loads[l].pc = "fetch"
    /\ IF outcome = "ok" THEN Proceed(l, "body") ELSE Settle(l, FALSE)

\* response.arrayBuffer() is over; on success decodeAudioData is called on
\* the audio context, which throws if init() has not made one.
BodyDone(l, ok) ==
    /\ loads[l].pc = "body"
    /\ IF ok /\ audioContext THEN Proceed(l, "decode") ELSE Settle(l, FALSE)

\* decodeAudioData is over.
DecodeDone(l, ok) ==
    /\ loads[l].pc = "decode"
    /\ Settle(l, ok)

\* ------------------------------------------------------------ loadPreset
\* loadPreset(presetId, onPadLoaded, onProgress), up to its first await; sounds
\* is what the server will answer for presetId. A run makes one such call.
LoadPreset(sounds) ==
    /\ preset.pc = "none"
    /\ preset' = [NoPreset EXCEPT !.pc = "fetch", !.sounds = sounds]
    /\ last' = Call("loadPreset", -1, 0, "pending")
    /\ UNCHANGED <<engine, now, loads, recording, reversal, gui>>

\* this.buffers = new Array(16).fill(null); this.soundUrls = new
\* Array(16).fill(null).
KeptSlots == [buffers |-> buffers, soundUrls |-> soundUrls]
ClearedSlots ==
    [buffers |-> [p \in Pads |-> NoBuffer], soundUrls |-> [p \in Pads |-> NoUrl]]

\* fetch('/api/presets/' + presetId) is over.
PresetFetchedClears(ok) ==
    /\ preset.pc = "fetch"
    /\ preset' = [preset EXCEPT !.pc = IF ok THEN "json" ELSE "false"]
    /\ buffers' = ClearedSlots.buffers
    /\ soundUrls' = ClearedSlots.soundUrls
    /\ last' = Call("loadPreset", -1, 0, IF ok THEN "pending" ELSE "false")
    /\ UNCHANGED <<audioContext, params, playback, now, loads, recording, reversal, gui>>
PresetFetched(ok) ==
    /\ preset.pc = "fetch"
    /\ preset' = [preset EXCEPT !.pc = IF ok THEN "json" ELSE "false"]
    /\ last' = Call("loadPreset", -1, 0, IF ok THEN "pending" ELSE "false")
    /\ UNCHANGED <<engine, now, loads, recording, reversal, gui>>

\* response.json() is over; on success the slots are cleared, onProgress(0,
\* total) is called and the loop starts.
PresetParsed(ok) ==
    /\ preset.pc = "json"
    /\ IF ok
       THEN LET st == PresetLoop(
                        [loads |-> loads,
                         preset |-> [preset EXCEPT
                                       !.pc = "loading",
                                       !.log = <<Made("progress", 0, Len(preset.sounds))>>]])
            IN /\ Len(st.loads) <= MaxLoads
               /\ loads' = st.loads
               /\ preset' = st.preset
               /\ buffers' = ClearedSlots.buffers
               /\ soundUrls' = ClearedSlots.soundUrls
               /\ last' = Call("loadPreset", -1, 0,
                               IF st.preset.pc = "true" THEN "true" ELSE "pending")
       ELSE /\ preset' = [preset EXCEPT !.pc = "false"]
            /\ last' = Call("loadPreset", -1, 0, "false")
            /\ UNCHANGED <<loads, store>>
    /\ UNCHANGED <<audioContext, params, playback, now, recording, reversal, gui>>

\* ------------------------------------------------------------ reversed buffers
\* The sample values and the sample rates of the buffers reversed.
Samples == {0, 1}
SampleRates == {1}

\* The AudioBuffers of up to MaxChannels channels and MaxLen frames.
AudioBuffers ==
    UNION {[numberOfChannels : {c}, length : {n}, sampleRate : SampleRates,
            data : [1..c -> [1..n -> Samples]]] :
           c \in 1..MaxChannels, n \in 1..MaxLen}

\* audioContext.createBuffer(numberOfChannels, length, sampleRate): silence.
CreateBuffer(numberOfChannels, length, sampleRate) ==
    [numberOfChannels |-> numberOfChannels, length |-> length,
     sampleRate |-> sampleRate,
     data |-> [channel \in 1..numberOfChannels |-> [i \in 1..length |-> 0]]]

\* getReversedBuffer(buffer): reversedData[i] = original[buffer.length - 1 - i]
\* for i from 0, which is frame length + 1 - i counting from 1.
ReversedOffByOne(b) ==
    [CreateBuffer(b.numberOfChannels, b.length, b.sampleRate) EXCEPT
        !.data = [channel \in 1..b.numberOfChannels |->
                    [i \in 1..b.length |->
                        b.data[channel][((b.length + 1 - i) % b.length) + 1]]]]
Rotated(b) ==
    [CreateBuffer(b.numberOfChannels, b.length, b.sampleRate) EXCEPT
        !.data = [channel \in 1..b.numberOfChannels |->
                    [i \in 1..b.length |-> b.data[channel][(i % b.length) + 1]]]]
GetReversedBuffer(b) ==
    [CreateBuffer(b.numberOfChannels, b.length, b.sampleRate) EXCEPT
        !.data = [channel \in 1..b.numberOfChannels |->
                    [i \in 1..b.length |-> b.data[channel][b.length + 1 - i]]]]

\* A call getReversedBuffer(buffer); without an audio context createBuffer
\* cannot be called and the call throws.
Reverse ==
    /\ buffer # NoAudioBuffer
    /\ IF audioContext
       THEN /\ reversed' = GetReversedBuffer(buffer)
            /\ last' = Call("getReversedBuffer", -1, 0, "buffer")
       ELSE /\ UNCHANGED reversed
            /\ last' = Call("getReversedBuffer", -1, 0, "throws")
    /\ UNCHANGED <<engine, now, loading, recording, gui, buffer>>

\* A call getReversedBuffer(reversed) on the buffer the last call returned.
ReverseAgain ==
    /\ reversed # NoAudioBuffer
    /\ audioContext
    /\ buffer' = reversed
    /\ reversed' = GetReversedBuffer(reversed)
    /\ last' = Call("getReversedBuffer", -1, 1, "buffer")
    /\ UNCHANGED <<engine, now, loading, recording, gui>>

\* ------------------------------------------------------------ track recording
\* getRecordedTrack() and isTrackRecording().
GetRecordedTrack == trackRecordedBlob
IsTrackRecording == isRecordingTrack

\* What the constructor of MediaRecorder and start(100) can do: both succeed,
\* the constructor throws, or start throws.
StartOutcomes == {"ok", "constructor", "start"}

\* The guards of startTrackRecording.
RefusedUninitialized == ~audioContext \/ ~recordDestination
Refused == ~audioContext \/ ~recordDestination \/ isRecordingTrack

\* new MediaRecorder(...) with the two handlers of startTrackRecording.
NewRecorder == [NoRecorder EXCEPT !.id = trackRecorder.id + 1]

\* A startTrackRecording that drops the stored blob with the old chunks.
StartDiscardsBlob(outcome) ==
    /\ Refused \/ trackRecorder.id < MaxSessions
    /\ IF Refused
       THEN /\ last' = Call("startTrackRecording", -1, 0, "false")
            /\ UNCHANGED session
       ELSE /\ trackRecordingChunks' = <<>>
            /\ trackRecordedBlob' = NoBlob
            /\ trackRecorder' = IF outcome = "constructor" THEN trackRecorder
                                ELSE [NewRecorder EXCEPT
                                        !.state = IF outcome = "ok" THEN "recording"
                                                  ELSE "inactive"]
            /\ isRecordingTrack' = (outcome = "ok")
            /\ last' = Call("startTrackRecording", -1, 0,
                            IF outcome = "ok" THEN "true" ELSE "false")
            /\ UNCHANGED stops
    /\ UNCHANGED <<engine, now, loading, recordDestination, mic, reversal, gui>>

\* startTrackRecording().
StartTrackRecording(outcome) ==
    /\ Refused \/ trackRecorder.id < MaxSessions
    /\ IF Refused
       THEN /\ last' = Call("startTrackRecording", -1, 0, "false")
            /\ UNCHANGED session
       ELSE /\ trackRecordingChunks' = <<>>
            /\ trackRecorder' =
                  CASE outcome = "ok" -> [NewRecorder EXCEPT !.state = "recording"]
                    [] outcome = "start" -> NewRecorder
                    [] outcome = "constructor" -> trackRecorder
            /\ isRecordingTrack' = (outcome = "ok")
            /\ last' = Call("startTrackRecording", -1, 0,
                            IF outcome = "ok" THEN "true" ELSE "false")
            /\ UNCHANGED <<trackRecordedBlob, stops>>
    /\ UNCHANGED <<engine, now, loading, recordDestination, mic, reversal, gui>>

\* What ondataavailable leaves in trackRecordingChunks for an event of the
\* recorder with or without data; a chunk is known by the recorder that
\* delivered it and its number among that recorder's chunks.
Chunk(rec, n) == [rec |-> rec, n |-> n]
KeepEmptyChunks(hasData) ==
    Append(trackRecordingChunks, Chunk(trackRecorder.id, trackRecorder.sent + 1))
ChunksAfter(hasData) ==
    IF hasData
    THEN Append(trackRecordingChunks, Chunk(trackRecorder.id, trackRecorder.sent + 1))
    ELSE trackRecordingChunks

\* A dataavailable event of the recorder while it records (every 100 ms).
DataAvailable(hasData) ==
    /\ trackRecorder.state = "recording"
    /\ trackRecorder.sent < MaxChunks
    /\ trackRecordingChunks' = ChunksAfter(hasData)
    /\ trackRecorder' = [trackRecorder EXCEPT !.sent = IF hasData THEN @ + 1 ELSE @]
    /\ last' = Call("dataavailable", -1, trackRecorder.id, "none")
    /\ UNCHANGED <<engine, now, loading, recordDestination, mic, gui,
                   isRecordingTrack,
                   trackRecordedBlob, stops, reversal>>

\* A stopTrackRecording call: what became of its promise and, if it was
\* resolved with a blob, the number of that blob.
StopCall(pc, blob) == [pc |-> pc, blob |-> blob]

\* A stopTrackRecording without the guard: it waits for a stop event whether
\* or not a recording is in progress.
StopUnguarded(throws) ==
    /\ Len(stops) < MaxStops
    /\ stops' = Append(stops, StopCall("pending", 0))
    /\ trackRecorder' = [trackRecorder EXCEPT !.onstop = Len(stops) + 1]
    /\ last' = Call("stopTrackRecording", -1, Len(stops) + 1, "pending")
    /\ UNCHANGED <<engine, now, loading, recordDestination, mic, gui,
                   isRecordingTrack,
                   trackRecordingChunks, trackRecordedBlob, reversal>>

\* stopTrackRecording(): the executor of the promise. stop() on a recorder
\* that is inactive already does nothing or, on older platforms, throws;
\* the handler is replaced before that.
StopTrackRecording(throws) ==
    /\ Len(stops) < MaxStops
    /\ LET c == Len(stops) + 1 IN
       IF ~isRecordingTrack \/ trackRecorder.id = 0
       THEN /\ stops' = Append(stops, StopCall("null", 0))
            /\ last' = Call("stopTrackRecording", -1, c, "null")
            /\ UNCHANGED trackRecorder
       ELSE /\ trackRecorder' = [trackRecorder EXCEPT
                                    !.onstop = c,
                                    !.state = "inactive",
                                    !.stopping = @ \/ trackRecorder.state = "recording"]
            /\ IF trackRecorder.state = "inactive" /\ throws
               THEN /\ stops' = Append(stops, StopCall("rejected", 0))
                    /\ last' = Call("stopTrackRecording", -1, c, "rejected")
               ELSE /\ stops' = Append(stops, StopCall("pending", 0))
                    /\ last' = Call("stopTrackRecording", -1, c, "pending")
    /\ UNCHANGED <<engine, now, loading, recordDestination, mic, gui,
                   isRecordingTrack,
                   trackRecordingChunks, trackRecordedBlob, reversal>>

\* The promises the onstop handler of the recorder resolves.
Resolves(c) == {d \in {c} : stops[d].pc = "pending"}

\* The task of stop(): the last dataavailable event, then the stop event,
\* whose handler is the one the latest stopTrackRecording call has set.
RecorderStopped(hasData) ==
    /\ trackRecorder.stopping
    /\ LET blob == [id |-> trackRecordedBlob.id + 1, chunks |-> ChunksAfter(hasData)]
       IN /\ trackRecordingChunks' = ChunksAfter(hasData)
          /\ trackRecordedBlob' = blob
          /\ isRecordingTrack' = FALSE
          /\ stops' = [d \in DOMAIN stops |->
                         IF d \in Resolves(trackRecorder.onstop)
                         THEN StopCall("blob", blob.id) ELSE stops[d]]
          /\ trackRecorder' = [trackRecorder EXCEPT
                                 !.stopping = FALSE,
                                 !.sent = IF hasData THEN @ + 1 ELSE @]
          /\ last' = Call("stop", -1, trackRecorder.onstop, "none")
    /\ UNCHANGED <<engine, now, loading, recordDestination, mic, reversal, gui>>

\* ------------------------------------------------------------ microphone recording
\* initRecording(), after getUserMedia has settled: with access granted a new
\* MediaRecorder replaces the old one.
InitRecording(granted) ==
    /\ IF granted
       THEN /\ mediaRecorder' = [NoMediaRecorder EXCEPT !.made = TRUE]
            /\ audioChunks' = <<>>
            /\ last' = Call("initRecording", -1, 0, "true")
       ELSE /\ UNCHANGED mic
            /\ last' = Call("initRecording", -1, 0, "false")
    /\ UNCHANGED <<engine, now, loading, recordDestination, session, reversal, gui>>

\* startRecording(): MediaRecorder.start() throws InvalidStateError unless the
\* recorder is inactive, and nothing in startRecording catches it.
StartRecording ==
    /\ IF ~mediaRecorder.made
       THEN /\ UNCHANGED mic
            /\ last' = Call("startRecording", -1, 0, "false")
       ELSE /\ audioChunks' = <<>>
            /\ IF mediaRecorder.state = "recording"
               THEN /\ UNCHANGED mediaRecorder
                    /\ last' = Call("startRecording", -1, 0, "throw")
               ELSE /\ mediaRecorder' = [mediaRecorder EXCEPT !.state = "recording"]
                    /\ last' = Call("startRecording", -1, 0, "true")
    /\ UNCHANGED <<engine, now, loading, recordDestination, session, reversal, gui>>

\* A dataavailable event of the microphone recorder: its chunk is kept, with
\* or without data.
MicData ==
    /\ mediaRecorder.state = "recording" \/ mediaRecorder.stopping
    /\ Len(audioChunks) < MaxChunks
    /\ audioChunks' = Append(audioChunks, Len(audioChunks) + 1)
    /\ last' = Call("dataavailable", -1, 0, "none")
    /\ UNCHANGED <<engine, now, loading, recordDestination, session, mediaRecorder,
                   reversal, gui>>

\* stopRecording(): the executor of the promise.
StopRecording ==
    /\ IF ~mediaRecorder.made \/ mediaRecorder.state = "inactive"
       THEN /\ UNCHANGED mediaRecorder
            /\ last' = Call("stopRecording", -1, 0, "null")
       ELSE /\ mediaRecorder' = [mediaRecorder EXCEPT !.state = "inactive",
                                                      !.stopping = TRUE]
            /\ last' = Call("stopRecording", -1, 0, "pending")
    /\ UNCHANGED <<engine, now, loading, recordDestination, session, audioChunks,
                   reversal, gui>>

\* The stop event of the microphone recorder: onstop makes a blob of the
\* chunks and decodes it for the promise of stopRecording.
MicStopped ==
    /\ mediaRecorder.stopping
    /\ mediaRecorder' = [mediaRecorder EXCEPT !.stopping = FALSE]
    /\ last' = Call("micstop", -1, 0, "none")
    /\ UNCHANGED <<engine, now, loading, recordDestination, session, audioChunks,
                   reversal, gui>>

\* ------------------------------------------------------------ pad parameters
\* A setLoop that also sets source.loop of the pad's registered source.
SetLoopLive(padIndex, enabled) ==
    /\ UNCHANGED <<loading, recording, reversal, gui>>
    /\ loopEnabled' = [loopEnabled EXCEPT ![padIndex] = enabled]
    /\ IF activeSources[padIndex] # None
       THEN voices' = [voices EXCEPT ![activeSources[padIndex]].loop = enabled]
       ELSE UNCHANGED voices
    /\ last' = Call("setLoop", padIndex, 0, "none")
    /\ UNCHANGED <<audioContext, store, trimStart, trimEnd, pitch, volume, reverse,
                   playMode, attack, release, activeSources, activeGains, now>>

\* setLoop(padIndex, enabled).
SetLoop(padIndex, enabled) ==
    /\ UNCHANGED <<loading, recording, reversal, gui>>
    /\ IF InvalidIndex(padIndex) THEN UNCHANGED loopEnabled
       ELSE loopEnabled' = [loopEnabled EXCEPT ![padIndex] = enabled]
    /\ last' = Call("setLoop", padIndex, 0, "none")
    /\ UNCHANGED <<audioContext, store, trimStart, trimEnd, pitch, volume, reverse,
                   playMode, attack, release, playback, now>>

\* setAttack(padIndex, value): clamped to [0.001, 2.0] seconds.
SetAttack(padIndex, value) ==
    /\ UNCHANGED <<loading, recording, reversal, gui>>
    /\ IF InvalidIndex(padIndex) THEN UNCHANGED attack
       ELSE attack' = [attack EXCEPT ![padIndex] = Max(1, Min(2000, value))]
    /\ last' = Call("setAttack", padIndex, value, "none")
    /\ UNCHANGED <<audioContext, store, trimStart, trimEnd, loopEnabled, pitch, volume,
                   reverse, playMode, release, playback, now>>

\* setRelease(padIndex, value): clamped to [0.001, 5.0] seconds.
SetRelease(padIndex, value) ==
    /\ UNCHANGED <<loading, recording, reversal, gui>>
    /\ IF InvalidIndex(padIndex) THEN UNCHANGED release
       ELSE release' = [release EXCEPT ![padIndex] = Max(1, Min(5000, value))]
    /\ last' = Call("setRelease", padIndex, value, "none")
    /\ UNCHANGED <<audioContext, store, trimStart, trimEnd, loopEnabled, pitch, volume,
                   reverse, playMode, attack, playback, now>>

\* gain.value = v on a gain whose automation is still running: the value is set
\* now and a ramp still ahead goes on from it to the ramp's own target.
SetGainNow(vc, v) ==
    IF now < vc.gt1
    THEN [vc EXCEPT !.g0 = v, !.gt0 = now]
    ELSE [vc EXCEPT !.g0 = v, !.gt0 = now, !.g1 = v, !.gt1 = now]

\* setVolume(padIndex, value): clamped to [0, 1], applied to the active gain.
SetVolume(padIndex, value) ==
    /\ UNCHANGED <<loading, recording, reversal, gui>>
    /\ IF InvalidIndex(padIndex) THEN UNCHANGED <<volume, voices>>
       ELSE LET vol == Max(0, Min(VolumeOne, value)) IN
            /\ volume' = [volume EXCEPT ![padIndex] = vol]
            /\ IF activeGains[padIndex] # None
               THEN voices' = [voices EXCEPT ![activeGains[padIndex]] = SetGainNow(@, vol)]
               ELSE UNCHANGED voices
    /\ last' = Call("setVolume", padIndex, value, "none")
    /\ UNCHANGED <<audioContext, store, trimStart, trimEnd, loopEnabled, pitch, reverse,
                   playMode, attack, release, activeSources, activeGains, now>>

\* source.playbackRate.value = r on a source that is playing.
KeepRate(vc, r) == vc
SetRateNow(vc, r) ==
    IF vc.state = "playing" THEN [vc EXCEPT !.rate = r] ELSE vc

\* The clamp of setPitch: Math.max(0.25, Math.min(4.0, value)).
PitchNoFloor(value) == Min(4 * PitchOne, value)
PitchClamp(value) == Max(PitchOne \div 4, Min(4 * PitchOne, value))

\* setPitch(padIndex, value): clamped, applied to the active source.
SetPitch(padIndex, value) ==
    /\ UNCHANGED <<loading, recording, reversal, gui>>
    /\ IF InvalidIndex(padIndex) THEN UNCHANGED <<pitch, voices>>
       ELSE LET rate == PitchClamp(value) IN
            /\ pitch' = [pitch EXCEPT ![padIndex] = rate]
            /\ IF activeSources[padIndex] # None
               THEN voices' = [voices EXCEPT ![activeSources[padIndex]] = SetRateNow(@, rate)]
               ELSE UNCHANGED voices
    /\ last' = Call("setPitch", padIndex, value, "none")
    /\ UNCHANGED <<audioContext, store, trimStart, trimEnd, loopEnabled, volume, reverse,
                   playMode, attack, release, activeSources, activeGains, now>>

\* setReverse(padIndex, enabled).
SetReverse(padIndex, enabled) ==
    /\ UNCHANGED <<loading, recording, reversal, gui>>
    /\ IF InvalidIndex(padIndex) THEN UNCHANGED reverse
       ELSE reverse' = [reverse EXCEPT ![padIndex] = enabled]
    /\ last' = Call("setReverse", padIndex, 0, "none")
    /\ UNCHANGED <<audioContext, store, trimStart, trimEnd, loopEnabled, pitch, volume,
                   playMode, attack, release, playback, now>>

\* The play modes setPlayMode accepts.
AnyMode(mode) == TRUE
KnownMode(mode) == mode = "oneshot" \/ mode = "gate"

\* setPlayMode(padIndex, mode): a mode it does not know is ignored.
SetPlayMode(padIndex, mode) ==
    /\ UNCHANGED <<loading, recording, reversal, gui>>
    /\ IF InvalidIndex(padIndex) \/ ~KnownMode(mode) THEN UNCHANGED playMode
       ELSE playMode' = [playMode EXCEPT ![padIndex] = mode]
    /\ last' = Call("setPlayMode", padIndex, mode, "none")
    /\ UNCHANGED <<audioContext, store, trimStart, trimEnd, loopEnabled, pitch, volume,
                   reverse, attack, release, playback, now>>

\* The clamp of setTrimStart: Math.max(0, Math.min(value, trimEnd - 0.01)).
TrimStartNoWindow(value, end) == Max(0, Min(value, end))
TrimStartClamp(value, end) == Max(0, Min(value, end - MinWindow))

\* The clamp of setTrimEnd: Math.min(1, Math.max(value, trimStart + 0.01)).
TrimEndIgnoresStart(value, start) == Min(TrimOne, Max(value, MinWindow))
TrimEndBelowOne(value, start) == Min(TrimOne - MinWindow, Max(value, start + MinWindow))
TrimEndClamp(value, start) == Min(TrimOne, Max(value, start + MinWindow))

\* setTrimStart(padIndex, value).
SetTrimStart(padIndex, value) ==
    /\ UNCHANGED <<loading, recording, reversal, gui>>
    /\ IF InvalidIndex(padIndex) THEN UNCHANGED trimStart
       ELSE trimStart' = [trimStart EXCEPT ![padIndex] =
                             TrimStartClamp(value, trimEnd[padIndex])]
    /\ last' = Call("setTrimStart", padIndex, value, "none")
    /\ UNCHANGED <<audioContext, store, trimEnd, loopEnabled, pitch, volume, reverse,
                   playMode, attack, release, playback, now>>

\* setTrimEnd(padIndex, value).
SetTrimEnd(padIndex, value) ==
    /\ UNCHANGED <<loading, recording, reversal, gui>>
    /\ IF InvalidIndex(padIndex) THEN UNCHANGED trimEnd
       ELSE trimEnd' = [trimEnd EXCEPT ![padIndex] =
                           TrimEndClamp(value, trimStart[padIndex])]
    /\ last' = Call("setTrimEnd", padIndex, value, "none")
    /\ UNCHANGED <<audioContext, store, trimStart, loopEnabled, pitch, volume, reverse,
                   playMode, attack, release, playback, now>>

\* getTrimValues(padIndex).
GetTrimValues(padIndex) == [start |-> trimStart[padIndex], end |-> trimEnd[padIndex]]

\* resetPadSettings(padIndex).
ResetPadSettings(padIndex) ==
    /\ UNCHANGED <<loading, recording, reversal, gui>>
    /\ IF InvalidIndex(padIndex) THEN UNCHANGED params
       ELSE /\ loopEnabled' = [loopEnabled EXCEPT ![padIndex] = FALSE]
            /\ pitch' = [pitch EXCEPT ![padIndex] = PitchOne]
            /\ volume' = [volume EXCEPT ![padIndex] = VolumeOne]
            /\ reverse' = [reverse EXCEPT ![padIndex] = FALSE]
            /\ playMode' = [playMode EXCEPT ![padIndex] = "oneshot"]
            /\ attack' = [attack EXCEPT ![padIndex] = DefaultAttack]
            /\ release' = [release EXCEPT ![padIndex] = DefaultRelease]
            /\ trimStart' = [trimStart EXCEPT ![padIndex] = 0]
            /\ trimEnd' = [trimEnd EXCEPT ![padIndex] = TrimOne]
    /\ last' = Call("reset", padIndex, 0, "none")
    /\ UNCHANGED <<audioContext, store, playback, now>>

\* ------------------------------------------------------------ pads and keys
\* A key is named by the pad keyboardMapping maps it to. The handlers below are
\* those of a page whose engine is initialised, where neither handleKeyDown nor
\* handlePadClick awaits init().

\* handleKeyDown for the key of pad padIndex; a key already in pressedKeys (a
\* repeat) is ignored.
HandleKeyDown(padIndex) ==
    /\ audioContext
    /\ padIndex \notin pressedKeys
    /\ pressedKeys' = pressedKeys \cup {padIndex}
    /\ PlaySoundCall(padIndex, FALSE)
    /\ UNCHANGED <<pointer, loading, recording, reversal>>
    /\ UNCHANGED <<audioContext, store, params, now>>

\* handleKeyUp for the key of pad padIndex.
HandleKeyUp(padIndex) ==
    /\ pressedKeys' = pressedKeys \ {padIndex}
    /\ IF playMode[padIndex] = "gate"
       THEN StopSoundCall(padIndex, TRUE)
       ELSE /\ last' = Call("keyup", padIndex, 0, "none")
            /\ UNCHANGED playback
    /\ UNCHANGED <<pointer, loading, recording, reversal>>
    /\ UNCHANGED <<audioContext, store, params, now>>

\* mousedown on a pad: activatePad, which only marks the pad.
MouseDown(padIndex) ==
    /\ pointer = NoPointer
    /\ pointer' = [down |-> padIndex, click |-> NoPad]
    /\ last' = Call("mousedown", padIndex, 0, "none")
    /\ UNCHANGED <<engine, now, loading, recording, reversal, pressedKeys>>

\* mouseup on the pad the pointer went down on: deactivatePad, which only
\* unmarks the pad; the browser then queues the click event of the pad.
MouseUp(padIndex) ==
    /\ pointer.down = padIndex
    /\ pointer' = [down |-> NoPad, click |-> padIndex]
    /\ last' = Call("mouseup", padIndex, 0, "none")
    /\ UNCHANGED <<engine, now, loading, recording, reversal, pressedKeys>>

\* mouseleave with the button held: deactivatePad; no click follows.
MouseLeave(padIndex) ==
    /\ pointer.down = padIndex
    /\ pointer' = NoPointer
    /\ last' = Call("mouseleave", padIndex, 0, "none")
    /\ UNCHANGED <<engine, now, loading, recording, reversal, pressedKeys>>

\* The click event of a pad: handlePadClick(padIndex).
HandlePadClick(padIndex) ==
    /\ audioContext
    /\ pointer.click = padIndex
    /\ pointer' = NoPointer
    /\ PlaySoundCall(padIndex, FALSE)
    /\ UNCHANGED <<pressedKeys, loading, recording, reversal>>
    /\ UNCHANGED <<audioContext, store, params, now>>

\* ------------------------------------------------------------ specifications
\* Requested values, in the units of the parameter they are passed for.
ReleaseInputs == {1}
AttackInputs == {1}
VolumeInputs == {50}
TrimInputs == {-20, 0, 5, 100, 500, 505, 900, 995, 1000, 1200}

\* The playback state machine: loading, play, stop, stopAll, ended events, time.
Next ==
    \/ InitEngine
    \/ \E b \in Buffers, p \in Pads : LoadBuffer(b, p)
    \/ \E p \in Pads, fail \in BOOLEAN : PlaySound(p, fail)
    \/ \E p \in Pads, r \in BOOLEAN : StopSound(p, r)
    \/ \E r \in BOOLEAN : StopAllSounds(r)
    \/ \E v \in Voices : OnEnded(v)
    \/ Tick

Spec == Init /\ [][Next]_vars

\* The envelope of pad 0, from the state after init() and loadBuffer(1, 0):
\* attack, release and volume change while the pad plays.
InitEnv ==
    /\ audioContext = TRUE
    /\ buffers = [p \in Pads |-> IF p = 0 THEN 1 ELSE NoBuffer]
    /\ soundUrls = [p \in Pads |-> IF p = 0 THEN RecordedUrl ELSE NoUrl]
    /\ trimStart = [p \in Pads |-> 0]
    /\ trimEnd = [p \in Pads |-> TrimOne]
    /\ loopEnabled = [p \in Pads |-> FALSE]
    /\ pitch = [p \in Pads |-> PitchOne]
    /\ volume = [p \in Pads |-> VolumeOne]
    /\ reverse = [p \in Pads |-> FALSE]
    /\ playMode = [p \in Pads |-> "oneshot"]
    /\ attack = [p \in Pads |-> DefaultAttack]
    /\ release = [p \in Pads |-> DefaultRelease]
    /\ activeSources = [p \in Pads |-> None]
    /\ activeGains = [p \in Pads |-> None]
    /\ voices = <<>>
    /\ now = 0
    /\ last = Call("loadBuffer", 0, 0, "true")
    /\ loads = <<>>
    /\ preset = NoPreset
    /\ recordDestination = TRUE
    /\ isRecordingTrack = FALSE
    /\ trackRecorder = NoRecorder
    /\ trackRecordingChunks = <<>>
    /\ trackRecordedBlob = NoBlob
    /\ stops = <<>>
    /\ buffer = NoAudioBuffer
    /\ reversed = NoAudioBuffer
    /\ mediaRecorder = NoMediaRecorder
    /\ audioChunks = <<>>
    /\ pressedKeys = {}
    /\ pointer = NoPointer

NextEnv ==
    \/ PlaySound(0, FALSE)
    \/ \E r \in BOOLEAN : StopSound(0, r)
    \/ \E v \in Voices : OnEnded(v)
    \/ \E x \in AttackInputs : SetAttack(0, x)
    \/ \E x \in ReleaseInputs : SetRelease(0, x)
    \/ \E x \in VolumeInputs : SetVolume(0, x)
    \/ Tick

SpecEnv == InitEnv /\ [][NextEnv]_vars

\* The trim window of the pads.
NextTrim ==
    \/ \E x \in TrimInputs : SetTrimStart(0, x)
    \/ \E x \in TrimInputs : SetTrimEnd(0, x)
    \/ ResetPadSettings(0)
    \/ \E b \in Buffers : LoadBuffer(b, 0)

SpecTrim == Init /\ [][NextTrim]_vars

\* Requests to the parameter setters: below, inside and above each range, and
\* a play mode the engine does not have.
PitchRequests == {10, 50, 900}
VolumeRequests == {-50, 50, 150}
AttackRequests == {0, 500, 3000}
ReleaseRequests == {0, 500, 6000}
ModeRequests == {"oneshot", "gate", "loop"}

\* The parameters of pad 0 under every setter.
NextParam ==
    \/ \E x \in PitchRequests : SetPitch(0, x)
    \/ \E x \in VolumeRequests : SetVolume(0, x)
    \/ \E x \in AttackRequests : SetAttack(0, x)
    \/ \E x \in ReleaseRequests : SetRelease(0, x)
    \/ \E m \in ModeRequests : SetPlayMode(0, m)
    \/ ResetPadSettings(0)

SpecParam == Init /\ [][NextParam]_vars

\* Pitch and volume of pad 0 set while it is idle and while it plays, from the
\* state after init() and loadBuffer(1, 0).
NextLive ==
    \/ PlaySound(0, FALSE)
    \/ StopSound(0, FALSE)
    \/ \E v \in Voices : OnEnded(v)
    \/ \E x \in PitchRequests : SetPitch(0, x)
    \/ \E x \in VolumeRequests : SetVolume(0, x)
    \/ Tick

SpecLive == InitEnv /\ [][NextLive]_vars

\* The trim window the slider requests while the pad plays.
WindowStart == 250
WindowEnd == 750

\* Pad 0 played while its trim window, loop, reverse, play mode and attack
\* are changed, from the state after init() and loadBuffer(1, 0).
NextFrame ==
    \/ PlaySound(0, FALSE)
    \/ SetTrimStart(0, WindowStart)
    \/ SetTrimEnd(0, WindowEnd)
    \/ SetLoop(0, TRUE)
    \/ SetReverse(0, TRUE)
    \/ SetPlayMode(0, "gate")
    \/ \E x \in AttackInputs : SetAttack(0, x)
    \/ Tick

SpecFrame == InitEnv /\ [][NextFrame]_vars

\* The presets the server answers with: sounds for pads 0 and 15, and a preset
\* that also names a pad the engine does not have.
Sound(url, padIndex) == [url |-> url, pad |-> padIndex]
PresetLists ==
    {<<Sound("a.wav", 0), Sound("b.wav", LastPad)>>,
     <<Sound("b.wav", 0), Sound("a.wav", LastPad + 1), Sound("a.wav", 0)>>}

\* Loading: loadSound calls and a loadPreset call in flight together, before
\* and after init(), on slots that are empty or hold a recorded buffer.
NextLoad ==
    \/ InitEngine
    \/ \E b \in Buffers : LoadBuffer(b, 0)
    \/ \E url \in Urls : LoadSound(url, 0)
    \/ \E l \in Loads, outcome \in FetchOutcomes : FetchDone(l, outcome)
    \/ \E l \in Loads, ok \in BOOLEAN : BodyDone(l, ok)
    \/ \E l \in Loads, ok \in BOOLEAN : DecodeDone(l, ok)
    \/ \E sounds \in PresetLists : LoadPreset(sounds)
    \/ \E ok \in BOOLEAN : PresetFetched(ok)
    \/ \E ok \in BOOLEAN : PresetParsed(ok)

SpecLoad == Init /\ [][NextLoad]_vars


\* One loadPreset call with no other load beside it: before the call the slots
\* are filled with recorded buffers and pad parameters are changed, then the
\* call runs to its end.
NextPreset ==
    \/ InitEngine
    \/ \E b \in Buffers, p \in Pads : preset.pc = "none" /\ LoadBuffer(b, p)
    \/ preset.pc = "none" /\ SetTrimStart(0, WindowStart)
    \/ preset.pc = "none" /\ SetPlayMode(LastPad, "gate")
    \/ \E sounds \in PresetLists : LoadPreset(sounds)
    \/ \E ok \in BOOLEAN : PresetFetched(ok)
    \/ \E ok \in BOOLEAN : PresetParsed(ok)
    \/ \E l \in Loads, outcome \in FetchOutcomes : FetchDone(l, outcome)
    \/ \E l \in Loads, ok \in BOOLEAN : BodyDone(l, ok)
    \/ \E l \in Loads, ok \in BOOLEAN : DecodeDone(l, ok)

SpecPreset == Init /\ [][NextPreset]_vars


\* Loading while pad 0 plays, from the state after init() and loadBuffer(1, 0):
\* loadBuffer, loadSound and loadPreset run while voices of pad 0 sound.
NextSwap ==
    \/ Len(voices) < MixVoices /\ PlaySound(0, FALSE)
    \/ \E b \in Buffers : LoadBuffer(b, 0)
    \/ LoadSound("a.wav", 0)
    \/ \E l \in Loads, outcome \in FetchOutcomes : FetchDone(l, outcome)
    \/ \E l \in Loads, ok \in BOOLEAN : BodyDone(l, ok)
    \/ \E l \in Loads, ok \in BOOLEAN : DecodeDone(l, ok)
    \/ \E sounds \in PresetLists : LoadPreset(sounds)
    \/ \E ok \in BOOLEAN : PresetFetched(ok)
    \/ \E ok \in BOOLEAN : PresetParsed(ok)

SpecSwap == InitEnv /\ [][NextSwap]_vars


\* The pitch of pad 0 set and reset while the pad plays, from the state after
\* init() and loadBuffer(1, 0).
NextPitch ==
    \/ Len(voices) < MixVoices /\ PlaySound(0, FALSE)
    \/ StopSound(0, FALSE)
    \/ \E v \in Voices : OnEnded(v)
    \/ \E x \in PitchRequests : SetPitch(0, x)
    \/ ResetPadSettings(0)
    \/ Tick

SpecPitch == InitEnv /\ [][NextPitch]_vars

\* Recording: sessions started, fed and stopped, before and after init(),
\* with stopTrackRecording called at any moment.
NextRec ==
    \/ InitEngine
    \/ \E outcome \in StartOutcomes : StartTrackRecording(outcome)
    \/ \E hasData \in BOOLEAN : DataAvailable(hasData)
    \/ \E throws \in BOOLEAN : StopTrackRecording(throws)
    \/ \E hasData \in BOOLEAN : RecorderStopped(hasData)

SpecRec == Init /\ [][NextRec]_vars

\* The event loop runs the task a stop() has queued.
SpecRecFair == SpecRec /\ WF_vars(\E hasData \in BOOLEAN : RecorderStopped(hasData))

\* Recording while pad 0 plays: one session started, fed, stopped and
\* finalized between plays, stops and ended events of at most MixVoices
\* voices, from the state after init() and loadBuffer(1, 0).
NextMix ==
    \/ Len(voices) < MixVoices /\ PlaySound(0, FALSE)
    \/ StopSound(0, FALSE)
    \/ StopAllSounds(TRUE)
    \/ \E v \in Voices : OnEnded(v)
    \/ Tick
    \/ trackRecorder.id = 0 /\ StartTrackRecording("ok")
    \/ DataAvailable(TRUE)
    \/ stops = <<>> /\ StopTrackRecording(FALSE)
    \/ RecorderStopped(TRUE)

SpecMix == InitEnv /\ [][NextMix]_vars

\* Reversal: getReversedBuffer on every buffer of AudioBuffers and on what it
\* returns, after init().
InitReverse ==
    /\ audioContext = TRUE
    /\ buffers = [p \in Pads |-> NoBuffer]
    /\ soundUrls = [p \in Pads |-> NoUrl]
    /\ trimStart = [p \in Pads |-> 0]
    /\ trimEnd = [p \in Pads |-> TrimOne]
    /\ loopEnabled = [p \in Pads |-> FALSE]
    /\ pitch = [p \in Pads |-> PitchOne]
    /\ volume = [p \in Pads |-> VolumeOne]
    /\ reverse = [p \in Pads |-> FALSE]
    /\ playMode = [p \in Pads |-> "oneshot"]
    /\ attack = [p \in Pads |-> DefaultAttack]
    /\ release = [p \in Pads |-> DefaultRelease]
    /\ activeSources = [p \in Pads |-> None]
    /\ activeGains = [p \in Pads |-> None]
    /\ voices = <<>>
    /\ now = 0
    /\ last = Call("init", -1, 0, "true")
    /\ loads = <<>>
    /\ preset = NoPreset
    /\ recordDestination = TRUE
    /\ isRecordingTrack = FALSE
    /\ trackRecorder = NoRecorder
    /\ trackRecordingChunks = <<>>
    /\ trackRecordedBlob = NoBlob
    /\ stops = <<>>
    /\ buffer \in AudioBuffers
    /\ reversed = NoAudioBuffer
    /\ mediaRecorder = NoMediaRecorder
    /\ audioChunks = <<>>
    /\ pressedKeys = {}
    /\ pointer = NoPointer

NextReverse ==
    \/ Reverse
    \/ ReverseAgain

SpecReverse == InitReverse /\ [][NextReverse]_vars

\* The synchronous operations, called before and after init() and
\* initRecording(), in any order and any number of times, with and without
\* a source registered for pad 0 (of MixVoices sources at most); the setters
\* are given the values a new pad has, but for setReverse.
NextSync ==
    \/ InitEngine
    \/ \E b \in Buffers : LoadBuffer(b, 0)
    \/ \E fail \in BOOLEAN : Len(voices) < MixVoices /\ PlaySound(0, fail)
    \/ \E r \in BOOLEAN : StopSound(0, r)
    \/ \E r \in BOOLEAN : StopAllSounds(r)
    \/ SetTrimStart(0, 0)
    \/ SetTrimEnd(0, TrimOne)
    \/ SetLoop(0, FALSE)
    \/ SetVolume(0, VolumeOne)
    \/ SetPitch(0, PitchOne)
    \/ SetReverse(0, TRUE)
    \/ SetPlayMode(0, "oneshot")
    \/ SetAttack(0, DefaultAttack)
    \/ SetRelease(0, DefaultRelease)
    \/ ResetPadSettings(0)
    \/ \E outcome \in StartOutcomes : StartTrackRecording(outcome)
    \/ \E granted \in BOOLEAN : InitRecording(granted)
    \/ StartRecording
    \/ StopRecording
    \/ MicData
    \/ MicStopped

SpecSync == Init /\ [][NextSync]_vars


\* The pads under the keyboard and the pointer, from the state after init() and
\* loadBuffer(1, 0): pad 0 is put in gate mode while nothing plays and nothing
\* is held, the last pad stays in oneshot mode.
NextGui ==
    \/ /\ activeSources[0] = None /\ pressedKeys = {} /\ pointer = NoPointer
       /\ playMode[0] = "oneshot" /\ SetPlayMode(0, "gate")
    \/ buffers[LastPad] = NoBuffer /\ LoadBuffer(1, LastPad)
    \/ \E p \in Pads : HandleKeyDown(p)
    \/ \E p \in Pads : HandleKeyUp(p)
    \/ \E p \in Pads : MouseDown(p)
    \/ \E p \in Pads : MouseUp(p)
    \/ \E p \in Pads : MouseLeave(p)
    \/ \E p \in Pads : HandlePadClick(p)
    \/ \E v \in Voices : OnEnded(v)
    \/ Tick

SpecGui == InitEnv /\ [][NextGui]_vars

\* Pad 0 with loop off and the last pad with loop on, played, stopped and left
\* to run, from the state after init() and loadBuffer(1, 0). A source that does
\* not loop is started only while the time modelled is long enough for its
\* buffer to play through;
\* the audio clock runs and queued ended events are dispatched.
NextLoop ==
    \/ buffers[LastPad] = NoBuffer /\ LoadBuffer(1, LastPad)
    \/ ~loopEnabled[LastPad] /\ SetLoop(LastPad, TRUE)
    \/ \E p \in Pads : /\ buffers[p] # NoBuffer /\ Len(voices) < MixVoices
                       /\ loopEnabled[p] \/ now + BufDuration(buffers[p]) <= MaxTime
                       /\ PlaySound(p, FALSE)
    \/ \E p \in Pads : StopSound(p, FALSE)
    \/ \E v \in Voices : OnEnded(v)
    \/ Tick

SpecLoop ==
    /\ InitEnv /\ [][NextLoop]_vars
    /\ WF_vars(Tick)
    /\ \A v \in 1..MixVoices : WF_vars(v \in Voices /\ OnEnded(v))


\* The indices next to the range: -1 and 16.
BadPads == PadArgs \ Pads

\* Every per-pad operation called with an index out of range, while pad 0
\* plays, from the state after init() and loadBuffer(1, 0).
NextIdx ==
    \/ PlaySound(0, FALSE)
    \/ \E p \in BadPads, url \in Urls : LoadSound(url, p)
    \/ \E p \in BadPads, b \in Buffers : LoadBuffer(b, p)
    \/ \E p \in BadPads, fail \in BOOLEAN : PlaySound(p, fail)
    \/ \E p \in BadPads, r \in BOOLEAN : StopSound(p, r)
    \/ \E p \in BadPads : SetTrimStart(p, WindowStart)
    \/ \E p \in BadPads : SetTrimEnd(p, WindowEnd)
    \/ \E p \in BadPads : SetLoop(p, TRUE)
    \/ \E p \in BadPads, x \in PitchRequests : SetPitch(p, x)
    \/ \E p \in BadPads, x \in VolumeRequests : SetVolume(p, x)
    \/ \E p \in BadPads : SetReverse(p, TRUE)
    \/ \E p \in BadPads : SetPlayMode(p, "gate")
    \/ \E p \in BadPads, x \in AttackRequests : SetAttack(p, x)
    \/ \E p \in BadPads, x \in ReleaseRequests : SetRelease(p, x)
    \/ \E p \in BadPads : ResetPadSettings(p)

SpecIdx == InitEnv /\ [][NextIdx]_vars

\* ------------------------------------------------------------ properties
\* A live voice: a started source that has not ended and has not reached its
\* stop time.
Live(v) == voices[v].state = "playing"
LiveOn(padIndex) == {v \in Voices : Live(v) /\ voices[v].pad = padIndex}
\* A live voice inside its release ramp: its stop is scheduled.
Releasing(v) == Live(v) /\ voices[v].stopAt # NoTime

\* C1, as stated: in every reachable state each pad has at most one live voice,
\* a voice inside its release ramp counting as live.
C1_AtMostOneLiveVoice == \A p \in Pads : Cardinality(LiveOn(p)) <= 1

\* C1, amended: in every reachable state each pad has at most one live voice
\* that is not inside a release ramp, and that voice is the pad's registered
\* voice; voices inside their release ramp may sound beside it.
C1_AtMostOneSustainedVoice ==
    \A p \in Pads :
        /\ Cardinality({v \in LiveOn(p) : ~Releasing(v)}) <= 1
        /\ \A v \in LiveOn(p) : ~Releasing(v) => activeSources[p] = v

\* A pad whose registered voice is live while an earlier voice of the same pad
\* is still inside its release ramp.
C1_ReleaseOverlapsNewVoice ==
    \E p \in Pads : \E v, w \in LiveOn(p) :
        v # w /\ Releasing(v) /\ ~Releasing(w) /\ activeSources[p] = w

\* C2: when play(p) is called on a Sounding pad and starts a source, the voice
\* registered before is stopped at once, without release ramp, so it is not
\* live beside the new one, and the new voice is the pad's registered voice.
C2_RetriggerCutsPrevious ==
    [][\A p \in Pads :
          (activeSources[p] # None /\ PlaySound(p, FALSE) /\ last'.ret = "true") =>
              LET old == activeSources[p]
                  new == activeSources'[p]
              IN /\ voices'[old].state # "playing"
                 /\ new \notin Voices /\ new \in DOMAIN voices'
                 /\ voices'[new].state = "playing" /\ voices'[new].pad = p
                 /\ voices'[new].stopAt = NoTime
                 /\ activeGains'[p] = new
                 /\ \A w \in Voices \ {old} : voices'[w] = voices[w]]_vars

\* play(p) has just cut the live voice that was registered and registered a new one.
C2_Retriggered ==
    /\ last.op = "play" /\ last.ret = "true" /\ last.arg # None
    /\ voices[last.arg].state = "ended"
    /\ activeSources[last.pad] # last.arg
    /\ Live(activeSources[last.pad])

\* C3: the ended handler of a voice that is not the pad's registered voice
\* changes nothing but the ended voice itself: the registered voice stays
\* registered and every other voice is as it was.
C3_StaleEndedIgnored ==
    [][\A v \in Voices :
          (OnEnded(v) /\ activeSources[voices[v].pad] # v) =>
              /\ UNCHANGED <<activeSources, activeGains, audioContext, store, params>>
              /\ \A w \in Voices \ {v} : voices'[w] = voices[w]]_vars

\* The ended event of a superseded voice has just run on a pad whose newer
\* voice is registered and live.
C3_StaleEndedRan ==
    /\ last.op = "onended"
    /\ activeSources[last.pad] # None
    /\ activeSources[last.pad] # last.arg
    /\ Live(activeSources[last.pad])

\* C4: play(p) on a pad that holds no buffer returns false and changes nothing.
C4_PlayWithoutBuffer ==
    [][\A p \in Pads, f \in BOOLEAN :
          (buffers[p] = NoBuffer /\ PlaySound(p, f)) =>
              /\ last'.ret = "false"
              /\ UNCHANGED <<audioContext, store, params, playback, now>>]_vars

\* play has just been refused on an initialized engine for a pad without buffer.
C4_RefusedEmptyPad ==
    /\ last.op = "play" /\ last.ret = "false" /\ last.pad \in Pads
    /\ audioContext
    /\ buffers[last.pad] = NoBuffer

\* C5: stop(p, useRelease) on a Sounding pad leaves no registered voice, for
\* either value of useRelease, and a play(p) on a pad without registered voice
\* that holds a buffer (the audio calls succeeding) registers a new live voice
\* and returns true, also while an earlier voice of the pad is ramping out.
C5_StopFreesPad ==
    [][\A p \in Pads :
          /\ \A r \in BOOLEAN :
                (activeSources[p] # None /\ StopSound(p, r)) =>
                    (activeSources'[p] = None /\ activeGains'[p] = None)
          /\ (/\ activeSources[p] = None
              /\ buffers[p] # NoBuffer
              /\ audioContext
              /\ PlaySound(p, FALSE)) =>
                 /\ last'.ret = "true"
                 /\ activeSources'[p] = Len(voices) + 1
                 /\ voices'[Len(voices) + 1].state = "playing"
                 /\ voices'[Len(voices) + 1].pad = p]_vars

\* play(p) has just started a voice at the instant at which the pad's previous
\* voice was stopped with release, and that voice is still ramping out.
C5_PlayedWhileRampingOut ==
    /\ last.op = "play" /\ last.ret = "true" /\ last.arg = None
    /\ Live(activeSources[last.pad])
    /\ \E v \in LiveOn(last.pad) : Releasing(v) /\ voices[v].gt0 = now

\* C6, as stated: after stop(p, true) the pad is reported as Sounding until
\* the release ramp has completed.
C6_SoundingUntilRampEnds ==
    \A v \in Voices : Releasing(v) => IsPlaying(voices[v].pad)

\* C6, amended: stop(p, true) on a pad whose registered voice is live makes
\* isPlaying(p) false at once, while the voice stays live, its stop scheduled
\* at now + release[p]; a voice inside its release ramp has not reached its
\* stop time.
C6_ReleaseReportsIdleAtOnce ==
    /\ [](\A v \in Voices : Releasing(v) => now < voices[v].stopAt)
    /\ [][\A p \in Pads :
             (/\ activeSources[p] # None
              /\ Live(activeSources[p])
              /\ StopSound(p, TRUE)) =>
                 /\ ~IsPlaying(p)'
                 /\ voices'[activeSources[p]].state = "playing"
                 /\ voices'[activeSources[p]].stopAt = now + release[p]]_vars

\* stop(p, true) has just been called on a live voice: the voice is still
\* live and the pad is reported as not playing.
C6_RampingOutReportedIdle ==
    /\ last.op = "release" /\ last.arg # None
    /\ Live(last.arg)
    /\ ~IsPlaying(last.pad)

\* C7: stop(p, true) at time now ramps the gain of the live registered voice
\* from the value it has at now (below the target while the attack ramp is
\* running) to 0 at now + release[p], and schedules the source's stop at
\* now + release[p].
C7_ReleaseRampFromCurrentGain ==
    [][\A p \in Pads :
          (/\ activeSources[p] # None
           /\ Live(activeSources[p])
           /\ StopSound(p, TRUE)) =>
              LET old == voices[activeGains[p]]
                  new == voices'[activeGains[p]]
              IN /\ new.g0 = GainAt(old, now) /\ new.gt0 = now
                 /\ new.g1 = 0 /\ new.gt1 = now + release[p]
                 /\ voices'[activeSources[p]].stopAt = now + release[p]
                 /\ GainAt(new, now) = GainAt(old, now)
                 /\ GainAt(new, now + release[p]) = 0
                 /\ (old.g0 = 0 /\ old.gt0 <= now /\ now < old.gt1 /\ old.g1 > 0) =>
                        /\ new.g0 < old.g1
                        /\ new.g0 * (old.gt1 - old.gt0) <= old.g1 * (now - old.gt0)
                        /\ old.g1 * (now - old.gt0) < (new.g0 + 1) * (old.gt1 - old.gt0)]_vars

\* stop(p, true) has just been called while the attack ramp was running: the
\* release ramp starts from a gain above 0 and below the pad's volume.
C7_StoppedDuringAttack ==
    /\ last.op = "release" /\ last.arg # None
    /\ Live(last.arg)
    /\ voices[last.arg].gt0 = now
    /\ voices[last.arg].g0 > 0
    /\ voices[last.arg].g0 < volume[last.pad]

\* C8: stop(p, useRelease) on a pad without registered voice changes no
\* engine state and raises no error, for either value of useRelease.
C8_StopOnIdlePad ==
    [][\A p \in Pads, r \in BOOLEAN :
          (activeSources[p] = None /\ StopSound(p, r)) =>
              /\ UNCHANGED <<audioContext, store, params, playback, now>>
              /\ last'.ret = "none"]_vars

\* stop has just been called on an Idle pad while an earlier voice of the pad
\* was ramping out, and that voice is still live.
C8_StoppedIdlePad ==
    /\ last.op = "stop" /\ last.arg = None /\ last.pad \in Pads
    /\ activeSources[last.pad] = None
    /\ \E v \in LiveOn(last.pad) : Releasing(v)

\* C9: when building or starting the graph throws (always so before init),
\* play(p) on a pad that holds a buffer returns false and the pad has no
\* registered voice afterwards; no voice was created.
C9_FailedPlayLeavesIdle ==
    [][\A p \in Pads :
          (/\ buffers[p] # NoBuffer
           /\ \/ PlaySound(p, TRUE)
              \/ ~audioContext /\ PlaySound(p, FALSE)) =>
              /\ last'.ret = "false"
              /\ activeSources'[p] = None /\ activeGains'[p] = None
              /\ Len(voices') = Len(voices)
              /\ \A v \in Voices : voices'[v].state = "playing" => voices[v] = voices'[v]]_vars

\* play has just failed on a pad that holds a buffer and was Sounding.
C9_FailedOnSoundingPad ==
    /\ last.op = "play" /\ last.ret = "false" /\ last.arg # None
    /\ buffers[last.pad] # NoBuffer
    /\ activeSources[last.pad] = None

C12_ParametersInRange ==
    \A p \in Pads :
        /\ pitch[p] >= 25 /\ pitch[p] <= 400
        /\ volume[p] >= 0 /\ volume[p] <= 100
        /\ attack[p] >= 1 /\ attack[p] <= 2000
        /\ release[p] >= 1 /\ release[p] <= 5000
        /\ playMode[p] \in {"oneshot", "gate"}

\* An unknown play mode has just been ignored on a pad whose pitch, volume,
\* attack and release were all requested out of range and sit on a limit.
C12_AllClamped ==
    /\ last.op = "setPlayMode" /\ last.pad \in Pads
    /\ last.arg = "loop"
    /\ playMode[last.pad] = "gate"
    /\ pitch[last.pad] = 25
    /\ volume[last.pad] = 0
    /\ attack[last.pad] = 2000
    /\ release[last.pad] = 5000

\* C13: setPitch(p, v) and setVolume(p, v) store the clamped value; on a
\* Sounding pad they set the playback rate, respectively the gain, of the
\* registered voice to it and leave the voice registered, at its position and
\* otherwise as it was; on an Idle pad they change no voice and create none.
C13_LiveUpdateInPlace ==
    [][\A p \in Pads :
          /\ \A x \in PitchRequests : SetPitch(p, x) =>
                /\ pitch'[p] = (IF x < 25 THEN 25 ELSE IF x > 400 THEN 400 ELSE x)
                /\ UNCHANGED <<activeSources, activeGains>>
                /\ DOMAIN voices' = DOMAIN voices
                /\ \A v \in Voices :
                      IF v = activeSources[p] /\ Live(v)
                      THEN voices'[v] = [voices[v] EXCEPT !.rate = pitch'[p]]
                      ELSE voices'[v] = voices[v]
          /\ \A x \in VolumeRequests : SetVolume(p, x) =>
                /\ volume'[p] = (IF x < 0 THEN 0 ELSE IF x > 100 THEN 100 ELSE x)
                /\ UNCHANGED <<activeSources, activeGains>>
                /\ DOMAIN voices' = DOMAIN voices
                /\ \A v \in Voices :
                      IF v = activeGains[p] /\ Live(v)
                      THEN /\ GainAt(voices'[v], now) = volume'[p]
                           /\ [voices'[v] EXCEPT !.g0 = 0, !.gt0 = 0, !.g1 = 0, !.gt1 = 0]
                                = [voices[v] EXCEPT !.g0 = 0, !.gt0 = 0, !.g1 = 0, !.gt1 = 0]
                      ELSE v # activeGains[p] => voices'[v] = voices[v]]_vars

\* setPitch has just been called with a value above the range on a pad whose
\* registered voice had already played part of its sample: the voice runs at
\* rate 4.0 from where it was.
C13_PitchedWhilePlaying ==
    /\ last.op = "setPitch" /\ last.pad \in Pads
    /\ last.arg > 400
    /\ activeSources[last.pad] # None
    /\ Live(activeSources[last.pad])
    /\ voices[activeSources[last.pad]].rate = 400
    /\ voices[activeSources[last.pad]].left < voices[activeSources[last.pad]].dur

\* C15, as stated: the release ramp that stop(p, true) gives the sounding voice
\* lasts the release time the pad had when that voice was started, whatever
\* setRelease(p, v) has stored since.
C15_ReleaseFixedAtPlay ==
    [][\A p \in Pads :
          (/\ activeSources[p] # None
           /\ Live(activeSources[p])
           /\ StopSound(p, TRUE)) =>
              voices'[activeSources[p]].stopAt = now + voices[activeSources[p]].rel]_vars

\* C15, amended: setRelease(p, v) changes no voice when it is called, and the
\* release ramp that stop(p, true) gives the sounding voice lasts the release
\* time the pad has when stop is called, also for a voice started before the
\* setRelease call.
C15_ReleaseReadAtStop ==
    [][\A p \in Pads :
          /\ \A x \in ReleaseInputs : SetRelease(p, x) =>
                UNCHANGED <<voices, activeSources, activeGains>>
          /\ (/\ activeSources[p] # None
              /\ Live(activeSources[p])
              /\ StopSound(p, TRUE)) =>
                 /\ voices'[activeSources[p]].stopAt = now + release[p]
                 /\ voices'[activeGains[p]].gt1 = now + release[p]]_vars

\* stop(p, true) has just been called on a live voice that was started under
\* another release time than the pad has now: the ramp lasts the current one.
C15_ReleasedAfterSetRelease ==
    /\ last.op = "release" /\ last.arg # None
    /\ Live(last.arg)
    /\ voices[last.arg].rel # release[last.pad]
    /\ voices[last.arg].stopAt = voices[last.arg].gt0 + release[last.pad]

\* C14: setTrimStart, setTrimEnd, setLoop, setReverse, setPlayMode and
\* setAttack change no voice and no registration, so a voice in progress keeps
\* its buffer, offset, duration, loop window and attack ramp and goes on from
\* where it is; the next successful play(p) builds its voice from the values
\* stored then.
C14_SettersLeaveVoices ==
    [][\A p \in Pads :
          /\ (\/ SetTrimStart(p, WindowStart)
              \/ SetTrimEnd(p, WindowEnd)
              \/ \E b \in BOOLEAN : SetLoop(p, b)
              \/ \E b \in BOOLEAN : SetReverse(p, b)
              \/ \E m \in ModeRequests : SetPlayMode(p, m)
              \/ \E x \in AttackInputs : SetAttack(p, x)) =>
                UNCHANGED <<voices, activeSources, activeGains>>
          /\ (PlaySound(p, FALSE) /\ last'.ret = "true") =>
                LET new == voices'[activeSources'[p]]
                IN /\ new.loop = loopEnabled[p]
                   /\ new.rev = reverse[p]
                   /\ new.offset = trimStart[p] * BufDuration(buffers[p])
                   /\ new.g0 = 0 /\ new.gt0 = now /\ new.gt1 = now + attack[p]]_vars

\* A setter has just been called on a pad whose registered voice has played
\* part of its sample and still has the whole-buffer window, no loop, the
\* forward buffer and the default attack it was started with, while the pad
\* now stores a trimmed window, loop, reverse, gate mode and another attack.
C14_SetWhileSounding ==
    /\ last.op \in {"setTrimStart", "setTrimEnd", "setLoop", "setReverse",
                    "setPlayMode", "setAttack"}
    /\ last.pad \in Pads
    /\ activeSources[last.pad] # None
    /\ Live(activeSources[last.pad])
    /\ LET vc == voices[activeSources[last.pad]]
       IN /\ vc.offset = 0 /\ vc.dur = TrimOne * BufDuration(vc.buf) /\ vc.left < vc.dur
          /\ ~vc.loop /\ ~vc.rev /\ vc.gt1 = vc.gt0 + DefaultAttack
    /\ trimStart[last.pad] = WindowStart /\ trimEnd[last.pad] = WindowEnd
    /\ loopEnabled[last.pad] /\ reverse[last.pad]
    /\ playMode[last.pad] = "gate" /\ attack[last.pad] # DefaultAttack

\* C16: a successful play(p) on a buffer of duration D starts the source at
\* trimStart * D; with loop off it is given the duration (trimEnd - trimStart)
\* * D, and has ended once it has played that long; with loop on it is given
\* the loop window [trimStart * D, trimEnd * D] and no duration, and does not
\* end by itself.
C16_TrimTimesDuration ==
    /\ [](\A v \in Voices :
             Live(v) /\ ~voices[v].loop =>
                (now - voices[v].gt0) * TrimOne * voices[v].rate < voices[v].dur * PitchOne)
    /\ [][/\ \A p \in Pads :
               (PlaySound(p, FALSE) /\ last'.ret = "true") =>
                  LET new == voices'[activeSources'[p]]
                      D == BufDuration(buffers[p])
                  IN /\ new.offset = trimStart[p] * D
                     /\ ~loopEnabled[p] =>
                           /\ ~new.loop
                           /\ new.dur = (trimEnd[p] - trimStart[p]) * D
                           /\ new.left = new.dur
                     /\ loopEnabled[p] =>
                           /\ new.loop /\ new.dur = NoTime
                           /\ new.loopStart = trimStart[p] * D
                           /\ new.loopEnd = trimEnd[p] * D
                     /\ (D = 2 /\ trimStart[p] = 250 /\ trimEnd[p] = 750) =>
                           /\ new.offset = 500
                           /\ new.offset + (IF new.loop THEN new.loopEnd - new.loopStart
                                            ELSE new.dur) = 1500
          /\ \A v \in Voices :
               (Tick /\ Live(v) /\ voices[v].loop /\ voices[v].stopAt = NoTime) =>
                  voices'[v].state = "playing"]_vars

\* play has been called on the 2 ms buffer with the window 0.25 to 0.75 and
\* loop off: the voice started at 0.5 ms with a duration of 1 ms.
C16_PlayedTrimmed ==
    /\ last.op = "play" /\ last.ret = "true"
    /\ Live(activeSources[last.pad])
    /\ LET vc == voices[activeSources[last.pad]]
       IN /\ BufDuration(vc.buf) = 2
          /\ ~vc.loop /\ vc.offset = 500 /\ vc.dur = 1000

\* The calls of one kind among the calls loadPreset has made, in order.
MadeOf(ev) == SelectSeq(preset.log, LAMBDA m : m.ev = ev)
\* How many calls of one kind loadPreset made before its i-th call.
MadeBefore(ev, i) == Cardinality({j \in 1..(i - 1) : preset.log[j].ev = ev})

\* C17: a loadSound call that fails, at fetch, at the response status, at the
\* body, at decoding or for want of an audio context, returns false, and no
\* step of it changes a buffer, a sourceRef, a parameter or a voice.
C17_FailedLoadKeepsSlot ==
    [][\A l \in Loads :
          (\/ \E outcome \in FetchOutcomes : FetchDone(l, outcome)
           \/ \E ok \in BOOLEAN : BodyDone(l, ok)
           \/ DecodeDone(l, FALSE)) =>
              /\ UNCHANGED <<store, params, playback, audioContext, now>>
              /\ loads'[l].pc = "false" <=> last'.ret = "false"
              /\ (\/ FetchDone(l, "rejected") \/ FetchDone(l, "status")
                  \/ BodyDone(l, FALSE) \/ DecodeDone(l, FALSE)
                  \/ ~audioContext /\ BodyDone(l, TRUE)) => loads'[l].pc = "false"]_vars

\* A loadSound call for a pad that holds the buffer of another source has just
\* failed on an initialized engine, and the pad still holds that buffer and
\* its sourceRef.
C17_FailedOnFullSlot ==
    /\ last.op = "loadSound" /\ last.ret = "false" /\ last.pad \in Pads
    /\ last.arg \in Loads
    /\ audioContext
    /\ buffers[last.pad] # NoBuffer
    /\ soundUrls[last.pad] # NoUrl
    /\ soundUrls[last.pad] # loads[last.arg].url

\* C18: the step in which loadSound(url, p) succeeds sets pad p's buffer and
\* sourceRef together and changes no other slot, no parameter and no voice;
\* in every state a slot's sourceRef and buffer come from the same load.
C18_LoadStoresBoth ==
    /\ [](\A p \in Pads :
             /\ soundUrls[p] = NoUrl <=> buffers[p] = NoBuffer
             /\ soundUrls[p] \in Urls => buffers[p] = Decoded(soundUrls[p]))
    /\ [][\A l \in Loads :
             DecodeDone(l, TRUE) =>
                /\ last'.ret = "true"
                /\ buffers' = [buffers EXCEPT ![loads[l].pad] = Decoded(loads[l].url)]
                /\ soundUrls' = [soundUrls EXCEPT ![loads[l].pad] = loads[l].url]
                /\ UNCHANGED <<params, playback, audioContext, now>>]_vars

\* loadSound has just succeeded on a pad for which an earlier loadSound call
\* had succeeded with another file: the slot holds the later call's buffer
\* and sourceRef.
C18_LoadedOverOther ==
    /\ last.op = "loadSound" /\ last.ret = "true"
    /\ buffers[last.pad] = Decoded(loads[last.arg].url)
    /\ soundUrls[last.pad] = loads[last.arg].url
    /\ \E l \in Loads \ {last.arg} :
          /\ loads[l].pc = "true" /\ loads[l].pad = last.pad
          /\ loads[l].url # loads[last.arg].url

\* The loadSound calls of the loadPreset call that have not settled.
PresetInFlight == {l \in Loads : loads[l].owner = "preset" /\ InFlight(l)}

\* C20: a loadPreset call on a preset of n sounds calls onProgress with (0, n),
\* (1, n), ... in this order, n + 1 times by the time it returns true; the
\* first before any loadSound call, the k-th after the k-th loadSound call has
\* settled and before the next is made; no two of its loadSound calls are in
\* flight together.
C20_ProgressInOrder ==
    LET n == Len(preset.sounds)
        log == preset.log
        progress == MadeOf("progress")
    IN /\ preset.pc \in {"none", "fetch", "json", "false"} => log = <<>>
       /\ preset.pc \in {"loading", "true"} =>
             /\ Len(progress) = preset.k + 1
             /\ \A i \in DOMAIN progress : progress[i].a = i - 1 /\ progress[i].b = n
             /\ log[1].ev = "progress"
             /\ \A i \in DOMAIN log :
                   /\ log[i].ev = "loadSound" =>
                         MadeBefore("progress", i) = MadeBefore("loadSound", i) + 1
                   /\ log[i].ev = "progress" =>
                         MadeBefore("loadSound", i) = log[i].a
       /\ preset.pc = "true" => Len(progress) = n + 1 /\ PresetInFlight = {}
       /\ Cardinality(PresetInFlight) <= 1
       /\ \A l \in PresetInFlight :
             /\ l = preset.cur
             /\ log[Len(log)].ev = "loadSound"
             /\ MadeBefore("loadSound", Len(log)) = preset.k

\* loadPreset has returned true for a preset of three sounds, one of them for
\* a pad out of range: four onProgress calls, one onPadLoaded with false.
C20_ThreeSoundsDone ==
    /\ preset.pc = "true"
    /\ Len(preset.sounds) = 3
    /\ Len(MadeOf("progress")) = 4
    /\ \E i \in DOMAIN preset.log : preset.log[i].ev = "padLoaded" /\ preset.log[i].b = 0
    /\ \E i \in DOMAIN preset.log : preset.log[i].ev = "padLoaded" /\ preset.log[i].b = 1

\* C19: loadSound, loadBuffer, play, stop, every setter and resetPadSettings,
\* called with an index below 0 or above 15, change nothing of the engine and
\* start no load; loadSound, loadBuffer and play report false.
C19_InvalidIndexRejected ==
    [][\A p \in BadPads :
          /\ (\/ \E url \in Urls : LoadSound(url, p)
              \/ \E b \in Buffers : LoadBuffer(b, p)
              \/ \E fail \in BOOLEAN : PlaySound(p, fail)) =>
                /\ last'.ret = "false"
                /\ UNCHANGED <<engine, now, loading, recording, reversal, gui>>
          /\ (\/ \E r \in BOOLEAN : StopSound(p, r)
              \/ SetTrimStart(p, WindowStart)
              \/ SetTrimEnd(p, WindowEnd)
              \/ SetLoop(p, TRUE)
              \/ \E x \in PitchRequests : SetPitch(p, x)
              \/ \E x \in VolumeRequests : SetVolume(p, x)
              \/ SetReverse(p, TRUE)
              \/ SetPlayMode(p, "gate")
              \/ \E x \in AttackRequests : SetAttack(p, x)
              \/ \E x \in ReleaseRequests : SetRelease(p, x)
              \/ ResetPadSettings(p)) =>
                /\ last'.ret = "none"
                /\ UNCHANGED <<engine, now, loading, recording, reversal, gui>>]_vars

\* loadBuffer has just been refused for pad 16 while pad 0 plays.
C19_RefusedPad16 ==
    /\ last.op = "loadBuffer" /\ last.pad = LastPad + 1 /\ last.ret = "false"
    /\ activeSources[0] # None
    /\ Live(activeSources[0])

\* The loadSound calls made by the loadPreset call.
PresetLoads == {l \in Loads : loads[l].owner = "preset"}
\* How many of the first i sounds of the preset name a pad in range.
InRangeUpTo(i) ==
    Cardinality({j \in 1..i : ~InvalidIndex(preset.sounds[j].pad)})
\* The loadSound call made for the i-th sound, which names a pad in range.
LoadOf(i) ==
    CHOOSE l \in PresetLoads :
        Cardinality({m \in PresetLoads : m <= l}) = InRangeUpTo(i)

\* C21: once the descriptor is parsed, loadPreset calls onPadLoaded once per
\* sound handled, in list order, with the pad of the sound and true exactly
\* when the loadSound call for that sound returned true; a sound that failed
\* is followed by the loadSound call for the next one; the call never returns
\* false, and returns true only after the last sound.
C21_FailedSoundKeepsBatch ==
    /\ [](LET sounds == preset.sounds
              padLoaded == MadeOf("padLoaded")
              attempted == MadeOf("loadSound")
          IN preset.pc \in {"loading", "true"} =>
                /\ Len(padLoaded) = preset.k
                /\ \A i \in DOMAIN padLoaded :
                      /\ padLoaded[i].a = sounds[i].pad
                      /\ IF InvalidIndex(sounds[i].pad)
                         THEN padLoaded[i].b = 0
                         ELSE /\ loads[LoadOf(i)].url = sounds[i].url
                              /\ loads[LoadOf(i)].pad = sounds[i].pad
                              /\ Settled(loads[LoadOf(i)])
                              /\ padLoaded[i].b = 1 <=> loads[LoadOf(i)].pc = "true"
                /\ Len(attempted) = IF preset.pc = "true" THEN Len(sounds)
                                    ELSE preset.k + 1
                /\ \A i \in DOMAIN attempted : attempted[i].a = sounds[i].pad
                /\ preset.pc = "true" => preset.k = Len(sounds))
    /\ [][preset.pc = "loading" => preset'.pc \in {"loading", "true"}]_vars

\* loadPreset has returned true although the loadSound call for its first
\* sound failed; the second sound was loaded after that.
C21_FirstFailedSecondLoaded ==
    /\ preset.pc = "true"
    /\ Len(preset.sounds) = 2
    /\ loads[LoadOf(1)].pc = "false"
    /\ loads[LoadOf(2)].pc = "true"
    /\ LoadOf(1) < LoadOf(2)
    /\ MadeOf("padLoaded") = <<Made("padLoaded", 0, 0), Made("padLoaded", LastPad, 1)>>
    /\ buffers[0] = NoBuffer /\ buffers[LastPad] = Decoded("b.wav")

\* C22: when a loadSound call returns true for a pad for which another call,
\* made before or after it, has returned true already, the pad holds the
\* buffer and the sourceRef of the call that has just returned; and while a
\* call is between its fetch and its decode it writes nothing to the slot.
C22_LastDecodeWins ==
    /\ []((last.op = "loadSound" /\ last.ret = "true") =>
             /\ buffers[last.pad] = Decoded(loads[last.arg].url)
             /\ soundUrls[last.pad] = loads[last.arg].url)
    /\ [][\A l, m \in Loads :
             (/\ l # m /\ loads[l].pad = loads[m].pad
              /\ InFlight(l) /\ InFlight(m)
              /\ DecodeDone(m, TRUE)) =>
                /\ buffers'[loads[m].pad] = Decoded(loads[m].url)
                /\ soundUrls'[loads[m].pad] = loads[m].url
                /\ InFlight(l)']_vars

\* Two loadSound calls for pad 0 with different files were in flight together;
\* the second one returned true first, the first one has just returned true,
\* and the pad holds what the first one decoded.
C22_FirstIssuedDecodedLast ==
    /\ Len(loads) = 2
    /\ loads[1].pad = loads[2].pad
    /\ loads[1].url # loads[2].url
    /\ loads[1].owner = "caller" /\ loads[2].owner = "caller"
    /\ loads[2].pc = "true"
    /\ last = Call("loadSound", loads[1].pad, 1, "true")
    /\ soundUrls[loads[1].pad] = loads[1].url
    /\ buffers[loads[1].pad] = Decoded(loads[1].url)

\* C23: startTrackRecording called before init() or while a recording is in
\* progress returns false and changes nothing: the flag, the recorder, the
\* chunks, the blob and the pending stop calls are as before, and a recorder
\* that was recording still is.
C23_RefusedStartChangesNothing ==
    [][\A outcome \in StartOutcomes :
          (/\ ~audioContext \/ ~recordDestination \/ isRecordingTrack
           /\ StartTrackRecording(outcome)) =>
              /\ last'.ret = "false"
              /\ UNCHANGED <<session, recordDestination, engine, now, loading>>
              /\ (trackRecorder.state = "recording" =>
                     trackRecorder'.state = "recording")]_vars

\* startTrackRecording has just been refused while a session that has
\* collected a chunk was recording, and the session goes on.
C23_RefusedWhileRecording ==
    /\ last.op = "startTrackRecording" /\ last.ret = "false"
    /\ isRecordingTrack
    /\ trackRecorder.state = "recording"
    /\ trackRecordingChunks = <<Chunk(trackRecorder.id, 1)>>

\* What has become of the promise of the c-th stopTrackRecording call.
Promise(c) == IF c \in DOMAIN stops THEN stops[c].pc ELSE "none"

\* C24: a session is finalized into one blob, once, and every
\* stopTrackRecording call made while the recording flag is set is in the end
\* resolved with a blob, a second call made before the stop event of the first
\* included.
C24_EveryStopResolves ==
    /\ [][trackRecordedBlob' # trackRecordedBlob =>
             /\ isRecordingTrack /\ ~isRecordingTrack'
             /\ trackRecordedBlob'.id = trackRecordedBlob.id + 1]_vars
    /\ \A c \in 1..MaxStops :
          [](Promise(c) \in {"pending", "rejected"} => <>(Promise(c) = "blob"))

\* The session is finalized and the second of two stopTrackRecording calls
\* made during it has its blob, while the promise of the first is pending with
\* no handler left to resolve it.
C24_FirstStopForgotten ==
    \E c, d \in DOMAIN stops :
        /\ c < d
        /\ stops[c].pc = "pending"
        /\ stops[d].pc = "blob" /\ stops[d].blob = trackRecordedBlob.id
        /\ ~isRecordingTrack /\ ~trackRecorder.stopping

\* C25: stopTrackRecording called while the recording flag is not set (no
\* session yet, the session finalized, or no init()) resolves its promise
\* with null at once and leaves the flag, the blob, the recorder and the
\* chunks as they were.
C25_StopWhileIdle ==
    [][\A throws \in BOOLEAN :
          (~isRecordingTrack /\ StopTrackRecording(throws)) =>
              /\ last'.ret = "null"
              /\ stops' = Append(stops, StopCall("null", 0))
              /\ UNCHANGED <<isRecordingTrack, trackRecordedBlob, trackRecorder,
                             trackRecordingChunks, recordDestination, engine,
                             now, loading>>]_vars

\* stopTrackRecording has just resolved with null after a session was
\* finalized, and the blob of that session is still stored.
C25_StoppedAfterFinalized ==
    /\ last.op = "stopTrackRecording" /\ last.ret = "null"
    /\ stops[last.arg].pc = "null"
    /\ ~isRecordingTrack
    /\ trackRecordedBlob.id = 1
    /\ trackRecordedBlob.chunks # <<>>

\* C26: startTrackRecording, whether it starts a session, is refused or
\* fails, leaves what getRecordedTrack returns as it was; so do the chunks of
\* the new session and stopTrackRecording. The stored blob changes only when
\* the stop event finalizes the session, and then it is a new blob made of
\* the chunks collected.
C26_BlobKeptUntilFinalized ==
    [][/\ \A outcome \in StartOutcomes :
             StartTrackRecording(outcome) => GetRecordedTrack' = GetRecordedTrack
       /\ GetRecordedTrack' # GetRecordedTrack =>
             /\ \E hasData \in BOOLEAN : RecorderStopped(hasData)
             /\ GetRecordedTrack'.id = GetRecordedTrack.id + 1
             /\ GetRecordedTrack'.chunks = trackRecordingChunks'
             /\ ~IsTrackRecording']_vars

\* A second session is recording and has collected a chunk, and
\* getRecordedTrack still returns the blob of the first session.
C26_OldBlobDuringNewSession ==
    /\ IsTrackRecording
    /\ trackRecorder.state = "recording"
    /\ trackRecordingChunks = <<Chunk(trackRecorder.id, 1)>>
    /\ GetRecordedTrack.id = 1
    /\ GetRecordedTrack.chunks # <<>>
    /\ \A i \in DOMAIN GetRecordedTrack.chunks :
          GetRecordedTrack.chunks[i].rec < trackRecorder.id

\* C27: play, stop, stopAll, the end of a source and its ended event leave
\* the recording flag, the recorder, the chunks, the blob and the pending
\* stop calls as they were; startTrackRecording, stopTrackRecording and the
\* recorder's events leave every pad's registered source and gain, every
\* voice, every buffer and every parameter as they were.
C27_RecordingApartFromPads ==
    [][/\ (\/ PlaySound(0, FALSE)
           \/ StopSound(0, FALSE)
           \/ StopAllSounds(TRUE)
           \/ \E v \in Voices : OnEnded(v)
           \/ Tick) => UNCHANGED recording
       /\ (\/ StartTrackRecording("ok")
           \/ StopTrackRecording(FALSE)
           \/ DataAvailable(TRUE)
           \/ RecorderStopped(TRUE)) => UNCHANGED <<engine, now, loading>>]_vars

\* stopAll has just stopped pad 0 with release while a session that has
\* collected a chunk is recording: the voice ramps out and the session goes on.
C27_StoppedAllWhileRecording ==
    /\ last = Call("stopAll", -1, 1, "none")
    /\ \E v \in Voices : Releasing(v)
    /\ isRecordingTrack
    /\ trackRecorder.state = "recording"
    /\ trackRecordingChunks # <<>>

\* C28: after stopAllSounds(useRelease), with or without release and whatever
\* pads had a registered source, no pad has a registered source or gain, and
\* no buffer, sourceRef or parameter has changed.
C28_StopAllClearsEveryPad ==
    [][last'.op = "stopAll" =>
          /\ \A p \in Pads : activeSources'[p] = None /\ activeGains'[p] = None
          /\ UNCHANGED <<store, params, audioContext>>]_vars

\* stopAll has just been called with sources registered for pads 0 and 15,
\* and neither pad has one now.
C28_StoppedBothPads ==
    /\ last = Call("stopAll", -1, 2, "none")
    /\ Sounding = {}
    /\ \E v, w \in Voices : voices[v].pad = 0 /\ voices[w].pad = LastPad

\* C29: what getReversedBuffer(buffer) returns has the channel count, the
\* length and the sample rate of buffer, and sample i of each of its channels
\* is sample length - 1 - i of that channel of buffer; the call leaves the
\* samples of buffer as they were.
C29_ReversedSampleOrder ==
    /\ [](reversed # NoAudioBuffer =>
             /\ reversed.numberOfChannels = buffer.numberOfChannels
             /\ reversed.length = buffer.length
             /\ reversed.sampleRate = buffer.sampleRate
             /\ DOMAIN reversed.data = 1..buffer.numberOfChannels
             /\ \A c \in 1..buffer.numberOfChannels :
                   /\ DOMAIN reversed.data[c] = 1..buffer.length
                   /\ \A i \in 0..(buffer.length - 1) :
                         reversed.data[c][i + 1] =
                            buffer.data[c][(buffer.length - 1 - i) + 1])
    /\ [][Reverse => buffer' = buffer]_vars

\* A buffer of two channels and three frames whose first channel reads 0, 0, 1
\* has been reversed: the first channel of the result reads 1, 0, 0.
C29_ReversedTwoChannels ==
    /\ last = Call("getReversedBuffer", -1, 0, "buffer")
    /\ buffer.numberOfChannels = 2 /\ buffer.length = 3
    /\ buffer.data[1] = <<0, 0, 1>>
    /\ buffer.data[2] = <<0, 1, 1>>
    /\ reversed.data[1] = <<1, 0, 0>>
    /\ reversed.data[2] = <<1, 1, 0>>

\* C30: getReversedBuffer applied to what getReversedBuffer(buffer) returned
\* gives the samples of buffer again, channel by channel, for every buffer of
\* one frame or more.
C30_ReversedTwiceIsOriginal ==
    /\ [](buffer # NoAudioBuffer =>
             GetReversedBuffer(GetReversedBuffer(buffer)) = buffer)
    /\ [][ReverseAgain => reversed' = buffer /\ buffer' = reversed]_vars

\* A buffer of three frames that is not its own mirror image has been reversed
\* twice, and the second result is the buffer the first call was given.
C30_ReversedTwice ==
    /\ last = Call("getReversedBuffer", -1, 1, "buffer")
    /\ buffer.length = 3
    /\ buffer.data[1] = <<1, 0, 0>>
    /\ reversed.data[1] = <<0, 0, 1>>

\* C31: no call of play, stop, stopAll, a setter, startTrackRecording or the
\* microphone startRecording throws, before init() or after, the second of
\* two starts without a stop included; each returns normally.
C31_NoExceptionEscapes ==
    [][last'.op \in {"play", "stop", "stopAll", "setTrimStart", "setTrimEnd",
                     "setLoop", "setVolume", "setPitch", "setReverse",
                     "setPlayMode", "setAttack", "setRelease", "reset",
                     "startTrackRecording", "startRecording"} =>
          last'.ret # "throw"]_vars

\* startRecording has just thrown: the microphone recorder was recording.
C31_SecondStartThrew ==
    /\ last = Call("startRecording", -1, 0, "throw")
    /\ mediaRecorder.made /\ mediaRecorder.state = "recording"

\* C32: a value that already respects the window (0 <= v <= trimEnd - 0.01 for
\* setTrimStart, trimStart + 0.01 <= v <= 1 for setTrimEnd) is stored exactly,
\* the other bound stays, and getTrimValues returns both.
C32_ValueInWindowStored ==
    [][\A p \in Pads :
          /\ (/\ last'.op = "setTrimStart" /\ last'.pad = p
              /\ 0 <= last'.arg /\ last'.arg <= trimEnd[p] - MinWindow) =>
                GetTrimValues(p)' = [start |-> last'.arg, end |-> trimEnd[p]]
          /\ (/\ last'.op = "setTrimEnd" /\ last'.pad = p
              /\ trimStart[p] + MinWindow <= last'.arg /\ last'.arg <= TrimOne) =>
                GetTrimValues(p)' = [start |-> trimStart[p], end |-> last'.arg]]_vars

\* setTrimStart(0, 0.1) then setTrimEnd(0, 0.9): the window reads 0.1 to 0.9.
C32_TrimmedTenToNinety ==
    /\ last = Call("setTrimEnd", 0, 900, "none")
    /\ GetTrimValues(0) = [start |-> 100, end |-> 900]

\* C33: a voice started with loop off leaves its pad sooner or later, and when
\* nothing stops or retriggers it the step that clears the pad is its ended
\* event; a voice started with loop on stays registered until a stop, a
\* stopAll or a play of its pad.
C33_OnlyLoopsPlayOn ==
    /\ \A p \in Pads, v \in 1..MixVoices :
          (activeSources[p] = v /\ ~voices[v].loop) ~> (activeSources[p] # v)
    /\ [][\A p \in Pads :
             (activeSources[p] # None /\ activeSources'[p] # activeSources[p]) =>
                 IF voices[activeSources[p]].loop
                 THEN last'.op \in {"play", "stop", "release", "stopAll"}
                 ELSE last'.op \in {"play", "stop", "release", "stopAll", "onended"}]_vars

\* Both pads were played at time 0 and nothing was stopped: at the end of the
\* time modelled pad 0 has just been cleared by the ended event of its voice
\* and the looping voice of the last pad is still registered and playing.
C33_LoopOutlivesOneShot ==
    /\ now = MaxTime
    /\ last.op = "onended" /\ last.pad = 0 /\ activeSources[0] = None
    /\ activeSources[LastPad] # None
    /\ LET vc == voices[activeSources[LastPad]] IN
          vc.loop /\ vc.state = "playing" /\ vc.gt0 = 0 /\ vc.stopAt = NoTime
    /\ Len(voices) = 2

\* C34: a pad in gate mode is registered as sounding only while the trigger
\* that started it is held (its key is down or the pointer is down on it):
\* the release of the trigger calls stopSound(pad, true).
C34_GateSoundsOnlyWhileHeld ==
    \A p \in Pads :
        (playMode[p] = "gate" /\ activeSources[p] # None) =>
            (p \in pressedKeys \/ pointer.down = p)

\* The gate pad 0 has been pressed and released with the pointer, its click
\* event has played it, and no key and no pointer is down.
C34_GatePadClicked ==
    /\ playMode[0] = "gate"
    /\ last.op = "play" /\ last.pad = 0 /\ last.ret = "true"
    /\ pressedKeys = {} /\ pointer = NoPointer
    /\ IsPlaying(0)

\* C35: when loadPreset has returned true and no other load ran beside it, a
\* pad named by a sound whose loadSound returned true holds the buffer and the
\* url of the last such sound, every other pad is empty, and no step of the
\* call changed a pad parameter.
C35_PresetDecidesSlots ==
    /\ [](preset.pc = "true" =>
            \A p \in Pads :
                LET loaded == {i \in DOMAIN preset.sounds :
                                 /\ preset.sounds[i].pad = p
                                 /\ loads[LoadOf(i)].pc = "true"}
                IN IF loaded = {}
                   THEN buffers[p] = NoBuffer /\ soundUrls[p] = NoUrl
                   ELSE LET i == CHOOSE i \in loaded : \A j \in loaded : j <= i
                        IN /\ buffers[p] = Decoded(preset.sounds[i].url)
                           /\ soundUrls[p] = preset.sounds[i].url)
    /\ [][preset'.pc # "none" => UNCHANGED params]_vars

\* loadPreset has returned true for the preset that names pad 0 twice: the
\* first sound was loaded, the second named no pad of the engine, the third
\* failed; pad 0 holds the first sound, the last pad lost its recorded buffer,
\* and the trim start of pad 0 and the play mode of the last pad are as set
\* before the call.
C35_TwiceNamedPadKeepsFirst ==
    /\ preset.pc = "true"
    /\ Len(preset.sounds) = 3
    /\ loads[LoadOf(1)].pc = "true" /\ loads[LoadOf(3)].pc = "false"
    /\ buffers[0] = Decoded("b.wav") /\ soundUrls[0] = "b.wav"
    /\ buffers[LastPad] = NoBuffer /\ soundUrls[LastPad] = NoUrl
    /\ \E ev \in DOMAIN preset.log : preset.log[ev] = Made("padLoaded", LastPad + 1, 0)
    /\ trimStart[0] = WindowStart /\ playMode[LastPad] = "gate"

\* C36: when the fetch or the parse of the preset descriptor fails, loadPreset
\* returns false, has called neither onProgress nor onPadLoaded, and no step
\* of the call up to there has changed a buffer or a url.
C36_FailedDescriptorKeepsSlots ==
    [][/\ preset'.pc \in {"fetch", "json", "false"} =>
             UNCHANGED store /\ preset'.log = <<>>
       /\ (preset.pc # "false" /\ preset'.pc = "false") =>
             last' = Call("loadPreset", -1, 0, "false")]_vars

\* loadPreset has just returned false while both pads hold the recorded
\* buffers loaded before the call.
C36_FailedWithFullSlots ==
    /\ preset.pc = "false" /\ preset.log = <<>>
    /\ last = Call("loadPreset", -1, 0, "false")
    /\ \A p \in Pads : buffers[p] \in Buffers /\ soundUrls[p] = RecordedUrl

\* C37: the blob made when a recording session is finalized holds the chunks
\* with data that the recorder of that session has delivered, all of them,
\* in the order of their delivery, and no chunk of another recorder.
C37_BlobIsSessionChunks ==
    [][(last'.op = "stop" /\ last'.pad = -1 /\ trackRecorder.stopping) =>
          trackRecordedBlob'.chunks =
              [i \in 1..trackRecorder'.sent |-> Chunk(trackRecorder.id, i)]]_vars

\* The second session has just been finalized: its blob holds the two chunks
\* of the second recorder.
C37_SecondSessionBlob ==
    /\ last.op = "stop" /\ last.pad = -1
    /\ trackRecorder.id = 2 /\ trackRecordedBlob.id = 2
    /\ trackRecordedBlob.chunks = <<Chunk(2, 1), Chunk(2, 2)>>
    /\ ~isRecordingTrack

\* C38: a successful play(p) with reverse set starts a source on the reversed
\* buffer at trimStart * D and lets it cover [trimStart * D, trimEnd * D] of
\* that buffer, D being its duration; counted in the original sample this is
\* the region [(1 - trimEnd) * D, (1 - trimStart) * D], played backwards.
C38_TrimOfReversedBuffer ==
    [][\A p \in Pads :
          (last'.op = "play" /\ last'.pad = p /\ last'.ret = "true" /\ reverse[p]) =>
              LET new == voices'[activeSources'[p]]
                  D == BufDuration(buffers[p])
                  end == IF new.loop THEN new.loopEnd ELSE new.offset + new.dur
              IN /\ new.rev /\ new.buf = buffers[p]
                 /\ new.offset = trimStart[p] * D
                 /\ end = trimEnd[p] * D
                 /\ new.loop => new.loopStart = new.offset
                 /\ TrimOne * D - end = (TrimOne - trimEnd[p]) * D
                 /\ TrimOne * D - new.offset = (TrimOne - trimStart[p]) * D]_vars

\* play has been called on the 2 ms buffer with reverse set and the window
\* 0.25 to 1: the source plays the reversed buffer from 0.5 ms to 2 ms, which
\* is the first 1.5 ms of the original.
C38_ReversedPlayedTrimmed ==
    /\ last.op = "play" /\ last.pad = 0 /\ last.ret = "true"
    /\ reverse[0] /\ trimStart[0] = WindowStart /\ trimEnd[0] = TrimOne
    /\ Live(activeSources[0])
    /\ LET vc == voices[activeSources[0]]
       IN /\ vc.rev /\ BufDuration(vc.buf) = 2 /\ ~vc.loop
          /\ vc.offset = 500 /\ vc.offset + vc.dur = 2000

\* C39: no step of loadSound, loadBuffer or loadPreset changes a source, a
\* gain node or the registration of a pad: a voice keeps the buffer it was
\* started with and its pad stays registered whatever the slot holds.
C39_LoadsLeaveVoices ==
    [][last'.op \in {"loadSound", "loadBuffer", "loadPreset"} =>
          UNCHANGED <<activeSources, activeGains, voices>>]_vars

\* loadPreset has just cleared the slots while pad 0 plays the recorded
\* buffer it was started with.
C39_SoundingOverEmptySlot ==
    /\ last.op = "loadPreset"
    /\ buffers[0] = NoBuffer
    /\ IsPlaying(0) /\ Live(activeSources[0])
    /\ voices[activeSources[0]].buf \in Buffers

\* C40: whenever a pad is registered with a source that plays, the playback
\* rate of that source is the pitch stored for the pad, after play, setPitch
\* and resetPadSettings alike.
C40_RateIsStoredPitch ==
    \A p \in Pads :
        (activeSources[p] # None /\ Live(activeSources[p])) =>
            voices[activeSources[p]].rate = pitch[p]

\* resetPadSettings has just been called on pad 0 while it plays at a pitch
\* other than 1.0: the stored pitch is 1.0 and the source runs at the old rate.
C40_ResetWhilePitched ==
    /\ last = Call("reset", 0, 0, "none")
    /\ IsPlaying(0) /\ Live(activeSources[0])
    /\ pitch[0] = PitchOne
    /\ voices[activeSources[0]].rate # PitchOne

====
